---- MODULE Spec2Model ----
(***************************************************************************)
(* A model of the evm-wallet-skill command suite: the chain registry       *)
(* (lib/chains.js, add-chain.js), the RPC access layer (lib/rpc.js), the   *)
(* fee estimator (lib/gas.js) and the transfer orchestrator (transfer.js). *)
(*                                                                         *)
(* Amounts and balances are counted in tenths of one asset unit (parseEther*)
(* and parseUnits scale by a fixed power of ten, which keeps the order).   *)
(* Fees are in wei.  An optional JavaScript value is a sequence: <<>> is   *)
(* undefined/null, <<v>> is the value v.                                   *)
(***************************************************************************)
EXTENDS Integers, Sequences, FiniteSets, TLC

VARIABLES
  args,        \* process.argv of the transfer run, already split into fields
  userChains,  \* contents of ~/.evm-wallet-chains.json (chain key -> config)
  chainNonce,  \* the sender's transaction count as the network knows it
  pc,          \* position of the transfer run inside main()
  rpc,         \* the logical RPC call in progress (lib/rpc.js client)
  loc,         \* local variables of main()
  out,         \* what the process printed and its exit code
  hist,        \* observation of the run: stages, calls, prompts, broadcasts
  gas,         \* a direct call of estimateGas: inputs and result
  reg,         \* the registry command last run (add-chain, remove-chain, getChain)
  prices,      \* a call of getCurrentGasPrices: its per-chain tasks and results
  writers      \* two registry commands running at the same time

vars == <<args, userChains, chainNonce, pc, rpc, loc, out, hist, gas, reg, prices, writers>>

Nothing == <<>>
Some(v) == <<v>>
IsSome(o) == Len(o) > 0
Min(a, b) == IF a < b THEN a ELSE b

(***************************************************************************)
(* Chain registry                                                          *)
(***************************************************************************)

\* String.prototype.toLowerCase on the chain names used here.
toLowerCase(s) ==
  CASE s = "MegaETH"   -> "megaeth"
    [] s = "LightLink" -> "lightlink"
    [] s = "Base"      -> "base"
    [] s = "MyChain"   -> "mychain"
    [] s = "My Chain"  -> "my chain"
    [] s = "BASE"      -> "base"
    [] s = "MY-CHAIN"  -> "my-chain"
    [] s = "Constructor" -> "constructor"
    [] OTHER           -> s

\* The built-in chain table.
builtinChains ==
  [ ethereum  |-> [chainId |-> 1, name |-> "Ethereum",
                   nativeToken |-> [symbol |-> "ETH", decimals |-> 18],
                   explorer |-> Some([name |-> "Etherscan", url |-> "https://etherscan.io"]),
                   rpcs |-> <<"https://ethereum.publicnode.com", "https://cloudflare-eth.com",
                              "https://rpc.ankr.com/eth">>,
                   legacyGas |-> FALSE],
    base      |-> [chainId |-> 8453, name |-> "Base",
                   nativeToken |-> [symbol |-> "ETH", decimals |-> 18],
                   explorer |-> Some([name |-> "BaseScan", url |-> "https://basescan.org"]),
                   rpcs |-> <<"https://mainnet.base.org", "https://base.publicnode.com",
                              "https://base.llamarpc.com">>,
                   legacyGas |-> FALSE],
    polygon   |-> [chainId |-> 137, name |-> "Polygon",
                   nativeToken |-> [symbol |-> "POL", decimals |-> 18],
                   explorer |-> Some([name |-> "PolygonScan", url |-> "https://polygonscan.com"]),
                   rpcs |-> <<"https://polygon.llamarpc.com", "https://polygon.publicnode.com",
                              "https://rpc.ankr.com/polygon">>,
                   legacyGas |-> FALSE],
    arbitrum  |-> [chainId |-> 42161, name |-> "Arbitrum One",
                   nativeToken |-> [symbol |-> "ETH", decimals |-> 18],
                   explorer |-> Some([name |-> "Arbiscan", url |-> "https://arbiscan.io"]),
                   rpcs |-> <<"https://arbitrum.publicnode.com", "https://arbitrum.llamarpc.com",
                              "https://rpc.ankr.com/arbitrum">>,
                   legacyGas |-> FALSE],
    optimism  |-> [chainId |-> 10, name |-> "Optimism",
                   nativeToken |-> [symbol |-> "ETH", decimals |-> 18],
                   explorer |-> Some([name |-> "Optimism Etherscan",
                                      url |-> "https://optimistic.etherscan.io"]),
                   rpcs |-> <<"https://optimism.publicnode.com", "https://optimism.llamarpc.com",
                              "https://rpc.ankr.com/optimism">>,
                   legacyGas |-> FALSE],
    megaeth   |-> [chainId |-> 4326, name |-> "MegaETH",
                   nativeToken |-> [symbol |-> "ETH", decimals |-> 18],
                   explorer |-> Some([name |-> "Etherscan", url |-> "https://mega.etherscan.io"]),
                   rpcs |-> <<"https://mainnet.megaeth.com/rpc",
                              "https://rpc-megaeth-mainnet.globalstake.io">>,
                   legacyGas |-> FALSE],
    lightlink |-> [chainId |-> 1890, name |-> "LightLink",
                   nativeToken |-> [symbol |-> "ETH", decimals |-> 18],
                   explorer |-> Some([name |-> "LightLink Explorer",
                                      url |-> "https://phoenix.lightlink.io"]),
                   rpcs |-> <<"https://replicator.phoenix.lightlink.io/rpc/v1",
                              "https://1890.rpc.thirdweb.com",
                              "https://endpoints.omniatech.io/v1/lightlink/phoenix/public">>,
                   legacyGas |-> TRUE] ]

\* An empty ~/.evm-wallet-chains.json (or no file at all).
NoUserChains == [k \in {} |-> k]

\* new URL(s) succeeds.
ValidUrls == {"https://rpc.mychain.io", "https://scan.mychain.io", "https://rpc.testnet.io"}
isValidUrl(s) == s \in ValidUrls

\* add-chain: the key under which the chain is stored.
chainKey(opts) ==
  LET lower == toLowerCase(opts.name)
  IN  IF lower = "my chain" THEN "my-chain" ELSE lower

\* add-chain: the chain config built from the parsed options.
chainConfig(opts) ==
  [chainId |-> opts.chainId, name |-> opts.name,
   nativeToken |-> [symbol |-> opts.nativeToken, decimals |-> opts.decimals],
   explorer |-> IF IsSome(opts.explorer) /\ isValidUrl(opts.explorer[1])
                  THEN Some([name |-> opts.name \o " Explorer", url |-> opts.explorer[1]])
                  ELSE Nothing,
   rpcs |-> <<opts.rpc>>,
   legacyGas |-> opts.legacyGas]

\* The chain table a command sees: built-ins overlaid with the user file.
MergedChains(file) ==
  [k \in DOMAIN builtinChains \cup DOMAIN file |->
     IF k \in DOMAIN file THEN file[k] ELSE builtinChains[k]]

chains == MergedChains(userChains)

\* The lower-case property names every JavaScript object inherits from
\* Object.prototype; reading one of them from the chain table gives a truthy
\* value that is no chain config.
ObjectPrototypeKeys == {"constructor", "__proto__"}
Inherited(key) == [inherited |-> key]

\* getChain(chainName): <<>> stands for the thrown "Unsupported chain".
getChain(chainName) ==
  IF toLowerCase(chainName) \in DOMAIN chains
    THEN Some(chains[toLowerCase(chainName)])
    ELSE IF toLowerCase(chainName) \in ObjectPrototypeKeys
      THEN Some(Inherited(toLowerCase(chainName)))
      ELSE Nothing

\* getSupportedChains(), for a process started with the given user file.
getSupportedChains(file) == DOMAIN MergedChains(file)

\* list-chains getUserChainKeys()
getUserChainKeys(file) == DOMAIN file

\* list-chains main() with --json: the object it prints, for a process
\* started with the given user file.
\* (A faulty variant first: every chain is reported as built-in.)
listChainsAllBuiltIn(file) ==
  [total |-> Cardinality(getSupportedChains(file)),
   builtIn |-> Cardinality(getSupportedChains(file)) - Cardinality(getUserChainKeys(file)),
   userDefined |-> Cardinality(getUserChainKeys(file)),
   chains |-> [name \in getSupportedChains(file) |->
                 LET chain == MergedChains(file)[name]
                 IN  [chainId |-> chain.chainId, name |-> chain.name,
                      nativeToken |-> chain.nativeToken.symbol,
                      explorer |-> IF IsSome(chain.explorer) THEN Some(chain.explorer[1].url)
                                                             ELSE Nothing,
                      legacyGas |-> chain.legacyGas,
                      userDefined |-> FALSE]]]

listChains(file) ==
  [total |-> Cardinality(getSupportedChains(file)),
   builtIn |-> Cardinality(getSupportedChains(file)) - Cardinality(getUserChainKeys(file)),
   userDefined |-> Cardinality(getUserChainKeys(file)),
   chains |-> [name \in getSupportedChains(file) |->
                 LET chain == MergedChains(file)[name]
                 IN  [chainId |-> chain.chainId, name |-> chain.name,
                      nativeToken |-> chain.nativeToken.symbol,
                      explorer |-> IF IsSome(chain.explorer) THEN Some(chain.explorer[1].url)
                                                             ELSE Nothing,
                      legacyGas |-> chain.legacyGas,
                      userDefined |-> name \in getUserChainKeys(file)]]]

\* getExplorerTxUrl: reading .url of a missing explorer throws a TypeError.
getExplorerTxUrl(chainName, txHash) ==
  LET chain == getChain(chainName)[1]
  IN  IF IsSome(chain.explorer)
        THEN [ok |-> TRUE,  url |-> chain.explorer[1].url \o "/tx/" \o txHash]
        ELSE [ok |-> FALSE, url |-> "TypeError: Cannot read properties of undefined"]

(***************************************************************************)
(* RPC access layer: one logical call over the chain's endpoint list       *)
(***************************************************************************)

TransportErrors == {"timeout", "connection refused"}
AppErrors == {"execution reverted"}

\* Whole-operation retry passes made after the first pass.
RetryPasses == 1

RpcIdle ==
  [op |-> "none", n |-> 0, pass |-> 0, idx |-> 0, log |-> <<>>,
   status |-> "idle", value |-> Nothing, err |-> Nothing]

\* A client call: starts at the first endpoint of the chain's list.
RpcStart(op, chainName) ==
  [op |-> op, n |-> Len(getChain(chainName)[1].rpcs), pass |-> 1, idx |-> 1,
   log |-> <<>>, status |-> "running", value |-> Nothing, err |-> Nothing]

\* The endpoints attempted so far, in order.
Tried(r) == [i \in 1..Len(r.log) |-> r.log[i].ep]

\* After a transport failure at endpoint r.idx: where the call goes next.
\* (Two faulty variants first: one gives up after a single pass, one keeps
\* asking the endpoint that failed.)
RpcAdvanceNoRetry(r, e) ==
  IF r.idx < r.n
    THEN [r EXCEPT !.idx = r.idx + 1]
    ELSE [r EXCEPT !.status = "failed",
                   !.err = Some([kind |-> "RpcExhausted", message |-> e])]

RpcAdvanceSameEndpoint(r, e) ==
  IF r.pass <= RetryPasses
    THEN [r EXCEPT !.pass = r.pass + 1]
    ELSE [r EXCEPT !.status = "failed",
                   !.err = Some([kind |-> "RpcExhausted", message |-> e])]

RpcAdvance(r, e) ==
  IF r.idx < r.n
    THEN [r EXCEPT !.idx = r.idx + 1]
    ELSE IF r.pass <= RetryPasses
      THEN [r EXCEPT !.pass = r.pass + 1, !.idx = 1]
      ELSE [r EXCEPT !.status = "failed",
                     !.err = Some([kind |-> "RpcExhausted", message |-> e])]

\* What the call hands back when an endpoint answered.
RpcDeliver(r, v) == [r EXCEPT !.status = "ok", !.value = Some(v)]

(***************************************************************************)
(* Fee estimator.  Every read the estimator makes through its client is a  *)
(* logical RPC call; `net` holds what each of those calls returns: a value *)
(* or, after the RPC layer gave up, an error.                              *)
(***************************************************************************)

\* An error message is the sequence of its parts, outermost prefix first:
\* <<"Transfer failed", "timeout">> is "Transfer failed: timeout".
Ok(v)   == [ok |-> TRUE,  v |-> Some(v), msg |-> <<>>]
Fail(m) == [ok |-> FALSE, v |-> Nothing, msg |-> <<m>>]

\* JavaScript truthiness of an optional bigint: undefined, null and 0n are falsy.
Truthy(o) == IsSome(o) /\ o[1] # 0

\* BigInt(x) throws a RangeError unless x is an integer; x is given in tenths.
IsIntegerTenths(x) == x % 10 = 0

MinPriorityFee == 100000000
DefaultPriorityFee == 2000000000

\* for (let i = 0; i < 10; i++): the block reads of one sampling run.
BlocksSampled == 10
\* block.transactions.slice(0, 10)
TxsSampled == 10
\* const blocksToAnalyze = 20n
BlocksToAnalyze == 20

\* Block number read in iteration i, relative to the latest block number:
\* startBlock + BigInt(i * 2) with startBlock = latest - 20 + 1.
SampleBlockOffset(i) == (1 - BlocksToAnalyze) + i * 2

\* The priority fees one block contributes: the first ten transactions that
\* carry both EIP-1559 fee fields with truthy values.
BlockFees(block) ==
  LET txs == SubSeq(block.transactions, 1, Min(TxsSampled, Len(block.transactions)))
      keep(tx) == Truthy(tx.maxPriorityFeePerGas) /\ Truthy(tx.maxFeePerGas)
  IN  [k \in 1..Len(SelectSeq(txs, keep)) |-> SelectSeq(txs, keep)[k].maxPriorityFeePerGas[1]]

\* priorityFees after iterations 0..i-1 of the sampling loop; a failed block
\* read is skipped.
RECURSIVE CollectFees(_, _)
CollectFees(net, i) ==
  IF i = 0 THEN <<>>
  ELSE LET b == net.blocks[i]
       IN  CollectFees(net, i - 1) \o (IF b.ok THEN BlockFees(b.v[1]) ELSE <<>>)

\* Array.prototype.sort with the ascending comparator.
RECURSIVE Insert(_, _)
Insert(x, s) ==
  IF s = <<>> THEN <<x>>
  ELSE IF x <= Head(s) THEN <<x>> \o s
  ELSE <<Head(s)>> \o Insert(x, Tail(s))

RECURSIVE SortAsc(_)
SortAsc(s) == IF s = <<>> THEN <<>> ELSE Insert(Head(s), SortAsc(Tail(s)))

\* Math.floor((percentile / 100) * (length - 1)); exact for the percentiles
\* used here, whose hundredth is a binary fraction.
\* (A faulty variant first: the index is taken over length, not length - 1.)
PercentileIndexOverLength(percentile, length) == (percentile * length) \div 100

PercentileIndex(percentile, length) == (percentile * (length - 1)) \div 100

\* The fee returned once at least one sample was collected.
SelectPriorityFee(priorityFees, percentile) ==
  LET sorted == SortAsc(priorityFees)
      index  == PercentileIndex(percentile, Len(sorted))
      selectedFee == IF index >= 0 /\ index < Len(sorted)
                       THEN Some(sorted[index + 1]) ELSE Nothing
  IN  IF IsSome(selectedFee) /\ selectedFee[1] > MinPriorityFee
        THEN selectedFee[1] ELSE MinPriorityFee

\* The reads of one sampling run, in the order they are issued.
SampleReads(net) ==
  <<[op |-> "getBlockNumber", arg |-> 0]>> \o
  (IF net.blockNumber.ok
     THEN [i \in 1..BlocksSampled |-> [op |-> "getBlock", arg |-> SampleBlockOffset(i - 1)]]
     ELSE <<>>)

\* estimateMaxPriorityFeePerGas: the default when nothing could be sampled.
\* (A faulty variant first: an empty sample gives the floor, not the default.)
estimateMaxPriorityFeePerGasFloorOnEmpty(net, percentile) ==
  IF ~net.blockNumber.ok THEN DefaultPriorityFee
  ELSE LET priorityFees == CollectFees(net, BlocksSampled)
       IN  IF Len(priorityFees) = 0 THEN MinPriorityFee
           ELSE SelectPriorityFee(priorityFees, percentile)

estimateMaxPriorityFeePerGas(net, percentile) ==
  IF ~net.blockNumber.ok THEN DefaultPriorityFee
  ELSE LET priorityFees == CollectFees(net, BlocksSampled)
       IN  IF Len(priorityFees) = 0 THEN DefaultPriorityFee
           ELSE SelectPriorityFee(priorityFees, percentile)

\* estimateLegacyGas: the override, when given, replaces the network gas price.
\* (A faulty variant first: the override is tested for truthiness, so 0n is
\* taken for no override.)
estimateLegacyGasTruthyOverride(chainName, gasPriceOverride, net) ==
  IF Truthy(gasPriceOverride)
    THEN [ok |-> TRUE, msg |-> <<>>, reads |-> <<>>,
          v |-> Some([type |-> "legacy", gasPrice |-> gasPriceOverride[1],
                      maxFeePerGas |-> gasPriceOverride[1], maxPriorityFeePerGas |-> 0,
                      baseFeePerGas |-> Nothing])]
  ELSE IF net.gasPrice.ok
    THEN [ok |-> TRUE, msg |-> <<>>, reads |-> <<[op |-> "getGasPrice", arg |-> 0]>>,
          v |-> Some([type |-> "legacy", gasPrice |-> net.gasPrice.v[1],
                      maxFeePerGas |-> net.gasPrice.v[1], maxPriorityFeePerGas |-> 0,
                      baseFeePerGas |-> Nothing])]
  ELSE [ok |-> FALSE, msg |-> <<"Failed to estimate legacy gas">> \o net.gasPrice.msg,
        reads |-> <<[op |-> "getGasPrice", arg |-> 0]>>, v |-> Nothing]

estimateLegacyGas(chainName, gasPriceOverride, net) ==
  IF IsSome(gasPriceOverride)
    THEN [ok |-> TRUE, msg |-> <<>>, reads |-> <<>>,
          v |-> Some([type |-> "legacy", gasPrice |-> gasPriceOverride[1],
                      maxFeePerGas |-> gasPriceOverride[1], maxPriorityFeePerGas |-> 0,
                      baseFeePerGas |-> Nothing])]
  ELSE IF net.gasPrice.ok
    THEN [ok |-> TRUE, msg |-> <<>>, reads |-> <<[op |-> "getGasPrice", arg |-> 0]>>,
          v |-> Some([type |-> "legacy", gasPrice |-> net.gasPrice.v[1],
                      maxFeePerGas |-> net.gasPrice.v[1], maxPriorityFeePerGas |-> 0,
                      baseFeePerGas |-> Nothing])]
  ELSE [ok |-> FALSE, msg |-> <<"Failed to estimate legacy gas">> \o net.gasPrice.msg,
        reads |-> <<[op |-> "getGasPrice", arg |-> 0]>>, v |-> Nothing]

\* Prefixes the reads made before a fallback to those of the fallback.
After(reads, res) == [res EXCEPT !.reads = reads \o res.reads]

\* maxFeePerGas = baseFeePerGas * BigInt(safetyMargin) + maxPriorityFeePerGas
\* (A faulty variant first: the safety margin is left out.)
MaxFeeNoMargin(baseFeePerGas, safetyMargin, maxPriorityFeePerGas) ==
  baseFeePerGas + maxPriorityFeePerGas

MaxFee(baseFeePerGas, safetyMargin, maxPriorityFeePerGas) ==
  baseFeePerGas * (safetyMargin \div 10) + maxPriorityFeePerGas

\* estimateEIP1559Gas; options.safetyMargin is in tenths.  Every failure inside
\* the try block, and a falsy base fee, ends in the legacy estimate.
estimateEIP1559Gas(chainName, options, net) ==
  LET latest == <<[op |-> "getBlock", arg |-> 0]>> IN
  IF ~net.latestBlock.ok
    THEN After(latest, estimateLegacyGas(chainName, Nothing, net))
  ELSE LET baseFeePerGas == net.latestBlock.v[1].baseFeePerGas IN
    IF ~Truthy(baseFeePerGas)
      THEN After(latest, estimateLegacyGas(chainName, Nothing, net))
    ELSE LET maxPriorityFeePerGas ==
               estimateMaxPriorityFeePerGas(net, options.priorityFeePercentile)
             reads == latest \o SampleReads(net)
         IN  IF ~IsIntegerTenths(options.safetyMargin)
               THEN After(reads, estimateLegacyGas(chainName, Nothing, net))
               ELSE LET maxFeePerGas ==
                          MaxFee(baseFeePerGas[1], options.safetyMargin, maxPriorityFeePerGas)
                    IN  [ok |-> TRUE, msg |-> <<>>, reads |-> reads,
                         v |-> Some([type |-> "eip1559", gasPrice |-> maxFeePerGas,
                                     maxFeePerGas |-> maxFeePerGas,
                                     maxPriorityFeePerGas |-> maxPriorityFeePerGas,
                                     baseFeePerGas |-> baseFeePerGas])]

\* isLegacyGasChain: false for a chain that does not resolve.
isLegacyGasChain(chainName) ==
  IF IsSome(getChain(chainName)) THEN getChain(chainName)[1].legacyGas ELSE FALSE

\* estimateGas with its defaults: safetyMargin = 2, priorityFeePercentile = 75.
estimateGas(chainName, options, net) ==
  LET safetyMargin == IF IsSome(options.safetyMargin) THEN options.safetyMargin[1] ELSE 20
      priorityFeePercentile ==
        IF IsSome(options.priorityFeePercentile) THEN options.priorityFeePercentile[1] ELSE 75
  IN  IF isLegacyGasChain(chainName)
        THEN estimateLegacyGas(chainName, options.gasPrice, net)
        ELSE estimateEIP1559Gas(chainName,
               [safetyMargin |-> safetyMargin, priorityFeePercentile |-> priorityFeePercentile],
               net)

\* estimateGasLimit: the simulated estimate plus 20%.
\* (A faulty variant first: the buffer is left out.)
GasLimitOfNoBuffer(gasEstimate) == gasEstimate

GasLimitOf(gasEstimate) == gasEstimate + gasEstimate \div 5

\* buildGasParams; a field the transaction does not carry is <<>>.
buildGasParams(gasEstimate) ==
  IF gasEstimate.type = "legacy"
    THEN [gasPrice |-> Some(gasEstimate.gasPrice),
          maxFeePerGas |-> Nothing, maxPriorityFeePerGas |-> Nothing]
    ELSE [gasPrice |-> Nothing,
          maxFeePerGas |-> Some(gasEstimate.maxFeePerGas),
          maxPriorityFeePerGas |-> Some(gasEstimate.maxPriorityFeePerGas)]

(***************************************************************************)
(* What the network may answer to the estimator's reads                    *)
(***************************************************************************)

\* Blocks of the sampled window that carry something other than the filler.
MaxDataBlocks == 2

Tx(prio, maxFee) == [maxPriorityFeePerGas |-> prio, maxFeePerGas |-> maxFee]
txLow    == Tx(Some(50000000), Some(1000000000))
txMid    == Tx(Some(100000001), Some(1000000000))
txHigh   == Tx(Some(1500000000), Some(2000000000))
txZero   == Tx(Some(0), Some(1000000000))
txLegacy == Tx(Nothing, Nothing)

EmptyBlock == Ok([transactions |-> <<>>])
BlockOutcomes ==
  { Fail("timeout"),
    Ok([transactions |-> <<txLow>>]),
    Ok([transactions |-> <<txHigh, txLegacy, txMid>>]),
    Ok([transactions |-> <<txZero, txLegacy>>]),
    Ok([transactions |-> [k \in 1..(TxsSampled + 1) |-> IF k <= TxsSampled THEN txLow ELSE txHigh]]) }

DataBlocks == UNION { [1..k -> BlockOutcomes] : k \in 0..MaxDataBlocks }

SampledWindows ==
  { [i \in 1..BlocksSampled |-> IF i <= Len(d) THEN d[i] ELSE filler] :
      d \in DataBlocks, filler \in {EmptyBlock, Fail("timeout")} }

LatestBlocks ==
  { Fail("timeout"),
    Ok([baseFeePerGas |-> Nothing]),
    Ok([baseFeePerGas |-> Some(0)]),
    Ok([baseFeePerGas |-> Some(10)]) }

NetScriptsOver(windows) ==
  [ latestBlock : LatestBlocks,
    gasPrice    : {Fail("connection refused"), Ok(0), Ok(7)},
    blockNumber : {Fail("timeout"), Ok(100)},
    blocks      : windows ]

NetScripts == NetScriptsOver(SampledWindows)

\* The answers drawn during a transfer run: the ten sampled blocks alike.
TransferNetScripts ==
  NetScriptsOver({ [i \in 1..BlocksSampled |-> b] :
                     b \in {EmptyBlock, Fail("timeout"), Ok([transactions |-> <<txMid>>])} })

(***************************************************************************)
(* Transfer: command line, environment and observations                    *)
(***************************************************************************)

\* isAddress(a)
ValidAddresses == {"0xRecipient", "0xToken"}
isAddress(a) == a \in ValidAddresses

\* parseEther / parseUnits: <<>> stands for the thrown parse error.
parseAmount(amount) ==
  CASE amount = "0"   -> Some(0)
    [] amount = "0.5" -> Some(5)
    [] amount = "1.0" -> Some(10)
    [] OTHER          -> Nothing

\* The positional arguments: every argument not starting with "--", so a
\* trailing "-y" is one of them.
positionalArgs ==
  LET given == SelectSeq(<<args.chainName, args.to, args.amount, args.tokenAddress>>,
                         LAMBDA a : a # "")
      all   == given \o (IF args.yes = "-y" THEN <<"-y">> ELSE <<>>)
  IN  [k \in 1..4 |-> IF k <= Len(all) THEN all[k] ELSE ""]

chainName    == positionalArgs[1]
to           == positionalArgs[2]
amount       == positionalArgs[3]
tokenAddress == positionalArgs[4]

yesFlag  == args.yes \in {"--yes", "-y"}
jsonFlag == args.jsonFlag

isNativeTransfer == tokenAddress = ""

Err(parts) == [parts |-> parts, have |-> Nothing, need |-> Nothing]

\* The local checks at the top of main(), in source order; <<>> when all pass.
ValidationError ==
  IF chainName = "" \/ to = "" \/ amount = ""
    THEN Some(Err(<<"Missing required arguments">>))
  ELSE IF ~isAddress(to)
    THEN Some(Err(<<"Invalid recipient address">>))
  ELSE IF tokenAddress # "" /\ ~isAddress(tokenAddress)
    THEN Some(Err(<<"Invalid token address">>))
  ELSE IF ~IsSome(getChain(chainName))
    THEN Some(Err(<<"Unexpected error", "Unsupported chain">>))
  ELSE IF isNativeTransfer /\ ~IsSome(parseAmount(amount))
    THEN Some(Err(<<"Unexpected error", "invalid decimal number">>))
  ELSE Nothing

StageOrder ==
  <<"Validated", "BalanceChecked", "FeeEstimated", "Built", "Signed", "Broadcast">>

NoLocals ==
  [transferAmount |-> Nothing, balance |-> Nothing, gasEstimate |-> Nothing,
   gasLimit |-> Nothing, gasParams |-> Nothing, tx |-> Nothing, txHash |-> Nothing]

NoOutput == [json |-> <<>>, stdout |-> <<>>, stderr |-> <<>>, exitCode |-> Nothing]

NoHistory ==
  [stages |-> <<>>, calls |-> <<>>, prompts |-> 0, answer |-> Nothing,
   sendCalls |-> 0, signs |-> 0, accepted |-> 0, simulated |-> Nothing]

GasIdle == [state |-> "idle", chainName |-> "", options |-> Nothing, net |-> Nothing,
            result |-> Nothing]

\* exitWithError(message): one JSON object or one stderr line, then exit(1).
\* (A faulty variant first: the process exits with code 0.)
exitWithErrorExitsZero(err) ==
  /\ out' = [out EXCEPT
               !.json   = IF jsonFlag
                            THEN Append(@, [success |-> FALSE, error |-> Some(err),
                                            txHash |-> Nothing, explorerUrl |-> Nothing])
                            ELSE @,
               !.stderr = IF jsonFlag THEN @ ELSE Append(@, err),
               !.exitCode = Some(0)]
  /\ pc' = "exited"

exitWithError(err) ==
  /\ out' = [out EXCEPT
               !.json   = IF jsonFlag
                            THEN Append(@, [success |-> FALSE, error |-> Some(err),
                                            txHash |-> Nothing, explorerUrl |-> Nothing])
                            ELSE @,
               !.stderr = IF jsonFlag THEN @ ELSE Append(@, err),
               !.exitCode = Some(1)]
  /\ pc' = "exited"

\* Observation: a stage completed; a logical call handed to the RPC layer,
\* noted with the number of stages completed before it.
\* (the estimator's own reads are part of what estimateGas returns).
WithStage(h, stage) == [h EXCEPT !.stages = Append(@, stage)]
WithCall(h, op) == [h EXCEPT !.calls = Append(@, [op |-> op, after |-> Len(h.stages)])]
RECURSIVE WithCalls(_, _)
WithCalls(h, reads) ==
  IF reads = <<>> THEN h ELSE WithCalls(WithCall(h, Head(reads).op), Tail(reads))

Returned == rpc.status \in {"ok", "failed"}

(***************************************************************************)
(* RPC access layer: the attempts of the call in progress                  *)
(***************************************************************************)

Balances == {5, 10}
GasEstimates == {0, 4, 21004}
TxHashes == {"0xhash"}

\* What an endpoint that answers returns for each operation.
OkValues(op) ==
  CASE op = "getBalance"             -> Balances
    [] op = "readContract:symbol"    -> {"USDC"}
    [] op = "readContract:decimals"  -> {6}
    [] op = "readContract:name"      -> {"USD Coin"}
    [] op = "readContract:balanceOf" -> Balances
    [] op = "estimateGas"            -> GasEstimates
    [] op = "getTransactionCount"    -> {chainNonce}
    [] op = "sendRawTransaction"     -> TxHashes

\* The attempt at endpoint rpc.idx is noted with its outcome and, when the
\* endpoint answered, its answer.
Logged(res, answer) ==
  [rpc EXCEPT !.log = Append(@, [ep |-> rpc.idx, res |-> res, answer |-> answer])]

\* The endpoint answers with a result.
RpcAttemptOk ==
  /\ rpc.status = "running"
  /\ \E v \in OkValues(rpc.op) : rpc' = RpcDeliver(Logged("ok", Some(v)), v)
  /\ hist' = IF rpc.op = "sendRawTransaction"
               THEN [hist EXCEPT !.accepted = @ + 1] ELSE hist
  /\ UNCHANGED <<prices, writers, reg, args, userChains, chainNonce, pc, loc, out, gas>>

\* The endpoint answers with a well-formed error: terminal for the call.
RpcAttemptRejected ==
  /\ rpc.status = "running"
  /\ \E e \in AppErrors :
       rpc' = [Logged("rejected", Nothing) EXCEPT
                 !.status = "failed", !.err = Some([kind |-> "RpcError", message |-> e])]
  /\ UNCHANGED <<prices, writers, reg, args, userChains, chainNonce, pc, loc, out, hist, gas>>

\* The endpoint cannot be reached: the call moves on.
RpcAttemptTransport ==
  /\ rpc.status = "running"
  /\ \E e \in TransportErrors : rpc' = RpcAdvance(Logged(e, Nothing), e)
  /\ UNCHANGED <<prices, writers, reg, args, userChains, chainNonce, pc, loc, out, hist, gas>>

\* Another transaction of the same account reaches the network.
MaxNonce == 5
OtherTransaction ==
  /\ pc \notin {"exited", "done"}
  /\ chainNonce < MaxNonce
  /\ chainNonce' = chainNonce + 1
  /\ UNCHANGED <<prices, writers, reg, args, userChains, pc, rpc, loc, out, hist, gas>>

(***************************************************************************)
(* Transfer: main()                                                        *)
(***************************************************************************)

Help ==
  /\ pc = "start" /\ args.help
  /\ pc' = "done"
  /\ out' = [out EXCEPT !.stdout = Append(@, "help"), !.exitCode = Some(0)]
  /\ UNCHANGED <<prices, writers, reg, args, userChains, chainNonce, rpc, loc, hist, gas>>

NoWallet ==
  /\ pc = "start" /\ ~args.help /\ ~args.walletExists
  /\ exitWithError(Err(<<"No wallet found">>))
  /\ UNCHANGED <<prices, writers, reg, args, userChains, chainNonce, rpc, loc, hist, gas>>

Started == pc = "start" /\ ~args.help /\ args.walletExists

\* A missing or malformed argument, or an unknown chain.
ValidateFail ==
  /\ Started /\ IsSome(ValidationError)
  /\ exitWithError(ValidationError[1])
  /\ UNCHANGED <<prices, writers, reg, args, userChains, chainNonce, rpc, loc, hist, gas>>

\* Native transfer: the amount is parsed, then the balance is read.
ValidateNative ==
  /\ Started /\ ~IsSome(ValidationError) /\ isNativeTransfer
  /\ loc' = [loc EXCEPT !.transferAmount = parseAmount(amount)]
  /\ hist' = WithCall(WithStage(hist, "Validated"), "getBalance")
  /\ rpc' = RpcStart("getBalance", chainName)
  /\ pc' = "getBalance"
  /\ UNCHANGED <<prices, writers, reg, args, userChains, chainNonce, out, gas>>

\* Token transfer: getTokenInfo issues its three reads together
\* (Promise.all); the client answers them one after the other.
ValidateToken ==
  /\ Started /\ ~IsSome(ValidationError) /\ ~isNativeTransfer
  /\ hist' = WithCalls(WithStage(hist, "Validated"),
                       <<[op |-> "readContract:symbol"], [op |-> "readContract:decimals"],
                         [op |-> "readContract:name"]>>)
  /\ rpc' = RpcStart("readContract:symbol", chainName)
  /\ pc' = "readSymbol"
  /\ UNCHANGED <<prices, writers, reg, args, userChains, chainNonce, loc, out, gas>>

TokenInfoFail ==
  /\ pc \in {"readSymbol", "readDecimals", "readName"} /\ rpc.status = "failed"
  /\ exitWithError(Err(<<"Unexpected error", "Failed to get token info",
                         rpc.err[1].message>>))
  /\ UNCHANGED <<prices, writers, reg, args, userChains, chainNonce, rpc, loc, hist, gas>>

TokenInfoNext ==
  /\ pc \in {"readSymbol", "readDecimals"} /\ rpc.status = "ok"
  /\ rpc' = RpcStart(IF pc = "readSymbol" THEN "readContract:decimals"
                                          ELSE "readContract:name", chainName)
  /\ pc' = IF pc = "readSymbol" THEN "readDecimals" ELSE "readName"
  /\ UNCHANGED <<prices, writers, reg, args, userChains, chainNonce, loc, out, hist, gas>>

\* With the token's decimals known the amount is parsed (parseUnits), then
\* the token balance is read.
TokenInfoDone ==
  /\ pc = "readName" /\ rpc.status = "ok"
  /\ IF IsSome(parseAmount(amount))
       THEN /\ loc' = [loc EXCEPT !.transferAmount = parseAmount(amount)]
            /\ hist' = WithCall(hist, "readContract:balanceOf")
            /\ rpc' = RpcStart("readContract:balanceOf", chainName)
            /\ pc' = "balanceOf"
            /\ UNCHANGED out
       ELSE /\ exitWithError(Err(<<"Unexpected error", "invalid decimal number">>))
            /\ UNCHANGED <<rpc, loc, hist>>
  /\ UNCHANGED <<prices, writers, reg, args, userChains, chainNonce, gas>>

BalanceFail ==
  /\ pc \in {"getBalance", "balanceOf"} /\ rpc.status = "failed"
  /\ exitWithError(Err(IF pc = "getBalance"
                         THEN <<"Unexpected error", rpc.err[1].message>>
                         ELSE <<"Unexpected error", "Failed to check token balance",
                                rpc.err[1].message>>))
  /\ UNCHANGED <<prices, writers, reg, args, userChains, chainNonce, rpc, loc, hist, gas>>

\* if (balance < transferAmount)
\* (A faulty variant first: only an empty balance counts as insufficient.)
InsufficientBalanceEmptyOnly(balance, transferAmount) == balance = 0

InsufficientBalance(balance, transferAmount) == balance < transferAmount

BalanceInsufficient ==
  /\ pc \in {"getBalance", "balanceOf"} /\ rpc.status = "ok"
  /\ InsufficientBalance(rpc.value[1], loc.transferAmount[1])
  /\ exitWithError([parts |-> IF pc = "getBalance" THEN <<"Insufficient balance">>
                                                   ELSE <<"Insufficient token balance">>,
                    have |-> rpc.value, need |-> parseAmount(amount)])
  /\ loc' = [loc EXCEPT !.balance = rpc.value]
  /\ UNCHANGED <<prices, writers, reg, args, userChains, chainNonce, rpc, hist, gas>>

BalanceOk ==
  /\ pc \in {"getBalance", "balanceOf"} /\ rpc.status = "ok"
  /\ ~InsufficientBalance(rpc.value[1], loc.transferAmount[1])
  /\ loc' = [loc EXCEPT !.balance = rpc.value]
  /\ hist' = WithStage(hist, "BalanceChecked")
  /\ pc' = "estimateGas"
  /\ UNCHANGED <<prices, writers, reg, args, userChains, chainNonce, rpc, out, gas>>

\* gasOptions: only --gas-price is passed on.
gasOptions ==
  [safetyMargin |-> Nothing, priorityFeePercentile |-> Nothing,
   gasPrice |-> args.customGasPrice]

\* estimateGas threw.
EstimateGasFail ==
  /\ pc = "estimateGas"
  /\ \E net \in TransferNetScripts :
       LET r == estimateGas(chainName, gasOptions, net)
       IN  /\ ~r.ok
           /\ exitWithError(Err(<<"Gas estimation failed">> \o r.msg))
  /\ UNCHANGED <<prices, writers, reg, args, userChains, chainNonce, rpc, loc, hist, gas>>

\* estimateGas returned a fee envelope; the gas limit is simulated next.
EstimateGasOk ==
  /\ pc = "estimateGas"
  /\ \E net \in TransferNetScripts :
       LET r == estimateGas(chainName, gasOptions, net)
       IN  /\ r.ok
           /\ loc' = [loc EXCEPT !.gasEstimate = r.v]
           /\ hist' = WithCall(hist, "estimateGas")
  /\ rpc' = RpcStart("estimateGas", chainName)
  /\ pc' = "estimateGasLimit"
  /\ UNCHANGED <<prices, writers, reg, args, userChains, chainNonce, out, gas>>

\* (A faulty variant: the failure is swallowed and the run goes on.)
GasLimitFailIgnored ==
  /\ pc = "estimateGasLimit" /\ rpc.status = "failed"
  /\ loc' = [loc EXCEPT !.gasLimit = Some(0),
                        !.gasParams = Some(buildGasParams(loc.gasEstimate[1]))]
  /\ pc' = "confirm"
  /\ UNCHANGED <<prices, writers, reg, args, userChains, chainNonce, rpc, out, hist, gas>>

GasLimitFail ==
  /\ pc = "estimateGasLimit" /\ rpc.status = "failed"
  /\ exitWithError(Err(<<"Gas estimation failed", "Failed to estimate gas limit",
                         rpc.err[1].message>>))
  /\ UNCHANGED <<prices, writers, reg, args, userChains, chainNonce, rpc, loc, hist, gas>>

\* The limit is stored, the gas parameters are built and, unless --json is
\* given, the transfer details are shown.
GasLimitOk ==
  /\ pc = "estimateGasLimit" /\ rpc.status = "ok"
  /\ loc' = [loc EXCEPT !.gasLimit = Some(GasLimitOf(rpc.value[1])),
                        !.gasParams = Some(buildGasParams(loc.gasEstimate[1]))]
  /\ hist' = [WithStage(hist, "FeeEstimated") EXCEPT !.simulated = rpc.value]
  /\ out' = IF jsonFlag THEN out ELSE [out EXCEPT !.stdout = Append(@, "details")]
  /\ pc' = "confirm"
  /\ UNCHANGED <<prices, writers, reg, args, userChains, chainNonce, rpc, gas>>

\* The request main() hands to walletClient.sendTransaction / writeContract:
\* it names no nonce.  (A faulty variant first: the nonce is fixed.)
TxRequestPinnedNonce ==
  [to    |-> IF isNativeTransfer THEN to ELSE tokenAddress,
   value |-> IF isNativeTransfer THEN loc.transferAmount[1] ELSE 0,
   data  |-> IF isNativeTransfer THEN Nothing
             ELSE Some([functionName |-> "transfer", args |-> <<to, loc.transferAmount[1]>>]),
   gas   |-> loc.gasLimit[1],
   gasPrice |-> loc.gasParams[1].gasPrice,
   maxFeePerGas |-> loc.gasParams[1].maxFeePerGas,
   maxPriorityFeePerGas |-> loc.gasParams[1].maxPriorityFeePerGas,
   nonce |-> Some(0)]

TxRequest ==
  [to    |-> IF isNativeTransfer THEN to ELSE tokenAddress,
   value |-> IF isNativeTransfer THEN loc.transferAmount[1] ELSE 0,
   data  |-> IF isNativeTransfer THEN Nothing
             ELSE Some([functionName |-> "transfer", args |-> <<to, loc.transferAmount[1]>>]),
   gas   |-> loc.gasLimit[1],
   gasPrice |-> loc.gasParams[1].gasPrice,
   maxFeePerGas |-> loc.gasParams[1].maxFeePerGas,
   maxPriorityFeePerGas |-> loc.gasParams[1].maxPriorityFeePerGas,
   nonce |-> Nothing]

\* The wallet client takes the request: a request without a nonce makes it
\* read the account's transaction count before the transaction is assembled.
SendTransaction(h) ==
  IF IsSome(TxRequest.nonce)
    THEN /\ loc' = [loc EXCEPT !.tx = Some(TxRequest)]
         /\ hist' = WithStage([h EXCEPT !.sendCalls = @ + 1], "Built")
         /\ pc' = "sign"
         /\ UNCHANGED rpc
    ELSE /\ hist' = WithCall([h EXCEPT !.sendCalls = @ + 1], "getTransactionCount")
         /\ rpc' = RpcStart("getTransactionCount", chainName)
         /\ pc' = "nonce"
         /\ UNCHANGED loc

\* confirm(): no prompt when --yes, -y or --json is given.
SkipsPrompt == yesFlag \/ jsonFlag

ConfirmSkipped ==
  /\ pc = "confirm" /\ SkipsPrompt
  /\ SendTransaction(hist)
  /\ UNCHANGED <<prices, writers, reg, args, userChains, chainNonce, out, gas>>

\* data.toString().trim().toLowerCase() of the line typed at the prompt.
Answers == {"y", "YES ", "n", ""}
Normalized(answer) == IF answer = "YES " THEN "yes" ELSE answer
IsYes(answer) == Normalized(answer) \in {"y", "yes"}

ConfirmYes ==
  /\ pc = "confirm" /\ ~SkipsPrompt
  /\ \E answer \in Answers :
       /\ IsYes(answer)
       /\ SendTransaction([hist EXCEPT !.prompts = @ + 1, !.answer = Some(answer)])
  /\ UNCHANGED <<prices, writers, reg, args, userChains, chainNonce, out, gas>>

\* Any other answer cancels: main() returns and the process ends with code 0.
ConfirmNo ==
  /\ pc = "confirm" /\ ~SkipsPrompt
  /\ \E answer \in Answers :
       /\ ~IsYes(answer)
       /\ hist' = [hist EXCEPT !.prompts = @ + 1, !.answer = Some(answer)]
  /\ out' = [out EXCEPT !.stdout = Append(@, "cancelled"), !.exitCode = Some(0)]
  /\ pc' = "done"
  /\ UNCHANGED <<prices, writers, reg, args, userChains, chainNonce, rpc, loc, gas>>

NonceFail ==
  /\ pc = "nonce" /\ rpc.status = "failed"
  /\ exitWithError(Err(<<"Transfer failed", rpc.err[1].message>>))
  /\ UNCHANGED <<prices, writers, reg, args, userChains, chainNonce, rpc, loc, hist, gas>>

\* The transaction is assembled with the count just read.
NonceOk ==
  /\ pc = "nonce" /\ rpc.status = "ok"
  /\ loc' = [loc EXCEPT !.tx = Some([TxRequest EXCEPT !.nonce = rpc.value])]
  /\ hist' = WithStage(hist, "Built")
  /\ pc' = "sign"
  /\ UNCHANGED <<prices, writers, reg, args, userChains, chainNonce, rpc, out, gas>>

\* The account signs; the signed transaction goes to the RPC layer.
SignOk ==
  /\ pc = "sign"
  /\ hist' = WithCall(WithStage([hist EXCEPT !.signs = @ + 1], "Signed"),
                      "sendRawTransaction")
  /\ rpc' = RpcStart("sendRawTransaction", chainName)
  /\ pc' = "broadcast"
  /\ UNCHANGED <<prices, writers, reg, args, userChains, chainNonce, loc, out, gas>>

SignFail ==
  /\ pc = "sign"
  /\ exitWithError(Err(<<"Transfer failed", "signing failed">>))
  /\ UNCHANGED <<prices, writers, reg, args, userChains, chainNonce, rpc, loc, hist, gas>>

\* (A faulty variant: a failed broadcast is sent again.)
BroadcastFailRetried ==
  /\ pc = "broadcast" /\ rpc.status = "failed"
  /\ hist' = WithCall(hist, "sendRawTransaction")
  /\ rpc' = RpcStart("sendRawTransaction", chainName)
  /\ UNCHANGED <<prices, writers, reg, args, userChains, chainNonce, pc, loc, out, gas>>

\* catch (error) { exitWithError(`Transfer failed: ${error.message}`) }
BroadcastFail ==
  /\ pc = "broadcast" /\ rpc.status = "failed"
  /\ exitWithError(Err(<<"Transfer failed", rpc.err[1].message>>))
  /\ UNCHANGED <<prices, writers, reg, args, userChains, chainNonce, rpc, loc, hist, gas>>

\* The hash came back: the explorer link is derived and success is printed.
\* A throw of getExplorerTxUrl lands in main()'s outer catch.
BroadcastOk ==
  /\ pc = "broadcast" /\ rpc.status = "ok"
  /\ loc' = [loc EXCEPT !.txHash = rpc.value]
  /\ hist' = WithStage(hist, "Broadcast")
  /\ LET link == getExplorerTxUrl(chainName, rpc.value[1])
     IN  IF link.ok
           THEN /\ out' = [out EXCEPT
                             !.json = IF jsonFlag
                                        THEN Append(@, [success |-> TRUE, error |-> Nothing,
                                                        txHash |-> rpc.value,
                                                        explorerUrl |-> Some(link.url)])
                                        ELSE @,
                             !.stdout = IF jsonFlag THEN @ ELSE Append(@, "success"),
                             !.exitCode = Some(0)]
                /\ pc' = "done"
           ELSE exitWithError(Err(<<"Unexpected error", link.url>>))
  /\ UNCHANGED <<prices, writers, reg, args, userChains, chainNonce, rpc, gas>>

(***************************************************************************)
(* Registry commands: add-chain.js, remove-chain.js and a getChain call    *)
(***************************************************************************)

\* What one run of a registry command prints: the JSON objects written to
\* stdout, the other stdout lines and the stderr lines.
NoPrint == [json |-> <<>>, stdout |-> <<>>, stderr |-> <<>>]
JsonError(message) == [success |-> FALSE, error |-> Some(message), result |-> Nothing]
JsonResult(result) == [success |-> TRUE, error |-> Nothing, result |-> Some(result)]

RegIdle ==
  [cmd |-> "none", argv |-> Nothing, ok |-> TRUE, error |-> "", exitCode |-> Nothing,
   before |-> NoUserChains, found |-> Nothing, added |-> Nothing, undone |-> Nothing,
   out |-> NoPrint, n |-> 0]

\* parseInt(s, 10): <<>> stands for NaN.
parseInt(s) ==
  CASE s = "12345" -> Some(12345)
    [] s = "0"     -> Some(0)
    [] s = "12abc" -> Some(12)
    [] s = "-5"    -> Some(-5)
    [] OTHER       -> Nothing

\* arg.startsWith('-')
StartsWithDash(s) == s \in {"-5", "--yes", "-y", "--json"}

\* add-chain parseArgs: the arguments that do not start with "-" fill name,
\* chainId and rpc in turn; chainId is filled again while it is falsy
\* (null, NaN or 0).
RECURSIVE ParsePositional(_, _)
ParsePositional(result, rest) ==
  IF rest = <<>> THEN result
  ELSE LET arg == Head(rest)
           next == IF StartsWithDash(arg) THEN result
                   ELSE IF result.name = Nothing
                     THEN [result EXCEPT !.name = Some(arg)]
                   ELSE IF ~(IsSome(result.chainId) /\ result.chainId[1] # 0)
                     THEN [result EXCEPT !.chainId = parseInt(arg)]
                   ELSE IF result.rpc = Nothing
                     THEN [result EXCEPT !.rpc = Some(arg)]
                   ELSE result
       IN  ParsePositional(next, Tail(rest))

parseArgs(argv) ==
  ParsePositional([name |-> Nothing, chainId |-> Nothing, rpc |-> Nothing,
                   nativeToken |-> argv.nativeToken, decimals |-> 18,
                   explorer |-> argv.explorer, legacyGas |-> argv.legacyGas],
                  argv.positional)

\* add-chain main(): the checks before the config is built; "" when all pass.
\* (A faulty variant first: the RPC URL is not checked.)
AddErrorUrlUnchecked(opts) ==
  IF opts.name = Nothing \/ ~(IsSome(opts.chainId) /\ opts.chainId[1] # 0) \/ opts.rpc = Nothing
    THEN "Missing required arguments"
  ELSE IF opts.chainId[1] <= 0
    THEN "Invalid chainId"
  ELSE ""

AddError(opts) ==
  IF opts.name = Nothing \/ ~(IsSome(opts.chainId) /\ opts.chainId[1] # 0) \/ opts.rpc = Nothing
    THEN "Missing required arguments"
  ELSE IF opts.chainId[1] <= 0
    THEN "Invalid chainId"
  ELSE IF ~isValidUrl(opts.rpc[1])
    THEN "Invalid RPC URL"
  ELSE ""

\* The options once name, chainId and rpc are known to be present.
Checked(opts) ==
  [opts EXCEPT !.name = opts.name[1], !.chainId = opts.chainId[1], !.rpc = opts.rpc[1]]

\* userChains[chainKey] = chainConfig; saveUserChains(userChains)
\* (A faulty variant first: the file is written with the new chain alone.)
WithChainAlone(file, key, config) == (key :> config)

WithChain(file, key, config) ==
  [k \in DOMAIN file \cup {key} |-> IF k = key THEN config ELSE file[k]]

\* delete userChains[chainName]; saveUserChains(userChains)
\* (A faulty variant first: the entry is not deleted.)
WithoutChainKept(file, key) == file

WithoutChain(file, key) == [k \in DOMAIN file \ {key} |-> file[k]]

\* Command lines of add-chain: every combination of chain id and RPC URL,
\* complete and incomplete argument lists, a malformed explorer URL,
\* every combination of the stored fields for arguments that pass, and
\* accepted and rejected command lines with --json.
AddArgvs ==
  ( [ positional : { <<"mychain", c, r>> : c \in {"12345", "0", "abc", "12abc", "-5"},
                                           r \in {"https://rpc.mychain.io", "not a url"} }
                     \cup {<<>>, <<"mychain">>, <<"mychain", "12345">>,
                           <<"mychain", "abc", "12345", "https://rpc.mychain.io">>,
                           <<"mychain", "0", "12abc", "not a url">>},
      explorer : {Nothing}, nativeToken : {"ETH"}, legacyGas : {FALSE}, json : {FALSE} ] )
  \cup
  ( [ positional : { <<n, "12345", "https://rpc.mychain.io">> : n \in {"My Chain", "Base", "mychain"} },
      explorer : {Some("not a url")}, nativeToken : {"ETH"}, legacyGas : {FALSE},
      json : {FALSE} ] )
  \cup
  ( [ positional : { <<n, "12345", "https://rpc.mychain.io">> : n \in {"My Chain", "Base", "mychain"} },
      explorer : {Nothing, Some("https://scan.mychain.io")},
      nativeToken : {"ETH", "BERA"}, legacyGas : BOOLEAN, json : {FALSE} ] )
  \cup
  ( [ positional : { <<>>, <<"mychain", "-5", "https://rpc.mychain.io">>,
                     <<"mychain", "12345", "not a url">>,
                     <<"mychain", "12345", "https://rpc.mychain.io">> },
      explorer : {Nothing, Some("not a url")}, nativeToken : {"ETH"}, legacyGas : {FALSE},
      json : {TRUE} ] )

\* Command lines of remove-chain, with the line typed at the prompt if one
\* is shown.
RemoveArgvs ==
  [ positional : { <<>>, <<"--yes">>, <<"base">>, <<"Base", "--yes">>, <<"base", "--json">>,
                   <<"my-chain", "-y">>, <<"My Chain", "--yes">>, <<"mychain">>,
                   <<"nochain", "--yes">>, <<"--json">>, <<"mychain", "--json">> },
    answer : {"y", "n"} ]

ResolveNames ==
  {"base", "Base", "BASE", "My Chain", "my-chain", "MY-CHAIN", "mychain", "nochain",
   "Constructor"}

Command(cmd, argv, ok, error, exitCode, found, added) ==
  [cmd |-> cmd, argv |-> argv, ok |-> ok, error |-> error, exitCode |-> exitCode,
   before |-> userChains, found |-> found, added |-> added, undone |-> Nothing,
   out |-> NoPrint, n |-> reg.n + 1]

\* The record of a remove-chain run; a run right after an add-chain run that
\* stored a chain stays on record together with that add-chain run and the
\* chain file before it.
Removal(argv, ok, error, exitCode) ==
  LET run == Command("remove", Some(argv), ok, error, exitCode, Nothing, Nothing)
      names == SelectSeq(argv.positional, LAMBDA a : ~StartsWithDash(a))
      jsonOutput == \E i \in 1..Len(argv.positional) : argv.positional[i] = "--json"
      prompted == /\ error \notin {"Chain name required", "not found in user config"}
                  /\ \A i \in 1..Len(argv.positional) :
                        argv.positional[i] \notin {"--yes", "-y", "--json"}
      removedChain == IF toLowerCase(names[1]) \in DOMAIN userChains
                        THEN Some(userChains[toLowerCase(names[1])].chainId) ELSE Nothing
      printed ==
        IF error # ""
          THEN IF jsonOutput THEN [NoPrint EXCEPT !.json = <<JsonError(error)>>]
                             ELSE [NoPrint EXCEPT !.stderr = <<error>>]
        ELSE IF ~ok
          THEN [NoPrint EXCEPT !.stdout = <<"Chain to remove", "Cancelled.">>]
        ELSE IF jsonOutput
          THEN [NoPrint EXCEPT !.json =
                  <<JsonResult([removed |-> toLowerCase(names[1]), chainId |-> removedChain])>>]
        ELSE [NoPrint EXCEPT !.stdout = IF prompted THEN <<"Chain to remove", "Removed">>
                                                    ELSE <<"Removed">>]
      undoing ==
        IF reg.cmd = "add" /\ IsSome(reg.added)
          THEN Some([add |-> reg.added[1], remove |-> argv, ok |-> ok, error |-> error,
                     before |-> reg.before])
          ELSE Nothing
  IN  [run EXCEPT !.undone = undoing, !.out = printed]

MaxCommands == 3

\* add-chain main(): what a rejected and an accepted run print.
AddRejected(argv, message) ==
  IF argv.json THEN [NoPrint EXCEPT !.json = <<JsonError(message)>>]
               ELSE [NoPrint EXCEPT !.stderr = <<message>>]

AddAccepted(argv, opts) ==
  IF argv.json
    THEN [NoPrint EXCEPT !.json =
            <<JsonResult([action |-> IF chainKey(opts) \in DOMAIN userChains
                                      THEN "updated" ELSE "added",
                          chain |-> chainKey(opts), config |-> chainConfig(opts)])>>]
    ELSE [NoPrint EXCEPT
            !.stdout = <<"saved">>,
            !.stderr = IF IsSome(argv.explorer) /\ ~isValidUrl(argv.explorer[1])
                         THEN <<"Warning: Invalid explorer URL, skipping">> ELSE <<>>]

\* add-chain parseArgs on --help or -h: the help text, then exit(0), whatever
\* else is on the command line.
AddChainHelp ==
  /\ pc = "registry" /\ reg.n < MaxCommands
  /\ \E json \in BOOLEAN :
       reg' = [Command("help", Some([positional |-> <<"--help">>, json |-> json]),
                       TRUE, "", Some(0), Nothing, Nothing)
                 EXCEPT !.out = [NoPrint EXCEPT !.stdout = <<"help">>]]
  /\ UNCHANGED <<prices, writers, args, userChains, chainNonce, pc, rpc, loc, out, hist, gas>>

\* add-chain main()
AddChain ==
  /\ pc = "registry" /\ reg.n < MaxCommands
  /\ \E argv \in AddArgvs :
       LET opts == parseArgs(argv)
       IN  IF AddError(opts) # ""
             THEN /\ reg' = [Command("add", Some(argv), FALSE, AddError(opts), Some(1),
                                     Nothing, Nothing)
                               EXCEPT !.out = AddRejected(argv, AddError(opts))]
                  /\ UNCHANGED userChains
             ELSE /\ userChains' = WithChain(userChains, chainKey(Checked(opts)),
                                             chainConfig(Checked(opts)))
                  /\ reg' = [Command("add", Some(argv), TRUE, "", Some(0), Nothing, Some(argv))
                               EXCEPT !.out = AddAccepted(argv, Checked(opts))]
  /\ UNCHANGED <<prices, writers, args, chainNonce, pc, rpc, loc, out, hist, gas>>

\* remove-chain main()
RemoveChain ==
  /\ pc = "registry" /\ reg.n < MaxCommands
  /\ \E argv \in RemoveArgvs :
       LET names == SelectSeq(argv.positional, LAMBDA a : ~StartsWithDash(a))
           skipConfirm == \E i \in 1..Len(argv.positional) : argv.positional[i] \in {"--yes", "-y"}
           jsonOutput  == \E i \in 1..Len(argv.positional) : argv.positional[i] = "--json"
           lowered == IF names = <<>> THEN "" ELSE toLowerCase(names[1])
           confirmed == skipConfirm \/ jsonOutput \/ argv.answer \in {"y", "yes"}
       IN  IF lowered = ""
             THEN /\ reg' = Removal(argv, FALSE, "Chain name required", Some(1))
                  /\ UNCHANGED userChains
           ELSE IF lowered \notin DOMAIN userChains \cup ObjectPrototypeKeys
             THEN /\ reg' = Removal(argv, FALSE, "not found in user config", Some(1))
                  /\ UNCHANGED userChains
           ELSE IF ~confirmed
             THEN /\ reg' = Removal(argv, FALSE, "", Some(0))
                  /\ UNCHANGED userChains
           ELSE /\ userChains' = WithoutChain(userChains, lowered)
                /\ reg' = Removal(argv, TRUE, "", Some(0))
  /\ UNCHANGED <<prices, writers, args, chainNonce, pc, rpc, loc, out, hist, gas>>

\* A command resolves a chain name with getChain; the chain added by the
\* command before it, if any, stays on record, and so does an add-chain run
\* followed by a remove-chain run just before it.
Resolve ==
  /\ pc = "registry" /\ reg.n < MaxCommands
  /\ \E name \in ResolveNames :
       reg' = [Command("resolve", Some(name), IsSome(getChain(name)),
                       IF IsSome(getChain(name)) THEN "" ELSE "Unsupported chain",
                       Nothing, getChain(name),
                       IF reg.cmd = "add" THEN reg.added ELSE Nothing)
                 EXCEPT !.undone = IF reg.cmd = "remove" THEN reg.undone ELSE Nothing]
  /\ UNCHANGED <<prices, writers, args, userChains, chainNonce, pc, rpc, loc, out, hist, gas>>

\* list-chains main() with --json
ListChains ==
  /\ pc = "registry" /\ reg.n < MaxCommands
  /\ reg' = [Command("list", Nothing, TRUE, "", Some(0), Some(listChains(userChains)), Nothing)
              EXCEPT !.undone = IF reg.cmd = "remove" THEN reg.undone ELSE Nothing]
  /\ UNCHANGED <<prices, writers, args, userChains, chainNonce, pc, rpc, loc, out, hist, gas>>

(***************************************************************************)
(* getCurrentGasPrices: one task per chain, settled in any order           *)
(***************************************************************************)

\* const results = {}
PricesIdle ==
  [state |-> "idle", chains |-> <<>>, nets |-> <<>>, settled |-> {},
   results |-> [k \in {} |-> k], returned |-> Nothing]

\* Most chains one call is asked about.
MaxRequested == 3

\* What the network answers to one task's reads.
PriceNetScripts ==
  [ latestBlock : {Fail("timeout"), Ok([baseFeePerGas |-> Some(10)])},
    gasPrice    : {Fail("connection refused"), Ok(7)},
    blockNumber : {Ok(100)},
    blocks      : {[i \in 1..BlocksSampled |-> EmptyBlock]} ]

\* The entry one task writes: try { estimateGas } catch { error.message }.
PriceEntry(name, net) ==
  LET gasInfo == estimateGas(name, [safetyMargin |-> Nothing, priorityFeePercentile |-> Nothing,
                                    gasPrice |-> Nothing], net)
  IN  IF gasInfo.ok THEN [success |-> TRUE, gasInfo |-> gasInfo.v, error |-> Nothing]
                    ELSE [success |-> FALSE, gasInfo |-> Nothing, error |-> Some(gasInfo.msg)]

\* results[chainName] = entry
\* (A faulty variant first: a failure entry replaces the whole result.)
WithEntryFailureAlone(results, name, entry) ==
  IF entry.success
    THEN [k \in DOMAIN results \cup {name} |-> IF k = name THEN entry ELSE results[k]]
    ELSE (name :> entry)

WithEntry(results, name, entry) ==
  [k \in DOMAIN results \cup {name} |-> IF k = name THEN entry ELSE results[k]]

\* One task's estimateGas settles and its entry is written.
PriceTaskSettles ==
  /\ prices.state = "running"
  /\ \E i \in (1..Len(prices.chains)) \ prices.settled :
       prices' = [prices EXCEPT
                    !.settled = @ \cup {i},
                    !.results = WithEntry(@, prices.chains[i],
                                          PriceEntry(prices.chains[i], prices.nets[i]))]
  /\ UNCHANGED <<args, userChains, chainNonce, pc, rpc, loc, out, hist, gas, reg, writers>>

\* Promise.allSettled resolves once every task has settled; results is
\* returned.
PricesReturn ==
  /\ prices.state = "running"
  /\ prices.settled = 1..Len(prices.chains)
  /\ prices' = [prices EXCEPT !.state = "returned", !.returned = Some(prices.results)]
  /\ UNCHANGED <<args, userChains, chainNonce, pc, rpc, loc, out, hist, gas, reg, writers>>

(***************************************************************************)
(* Two registry commands at once: each loads the user file, changes one    *)
(* key and saves the whole file                                            *)
(***************************************************************************)

WritersIdle == [state |-> "idle", procs |-> <<>>, overlap |-> FALSE, last |-> 0]

\* loadUserChains(): the parsed file.
\* (A faulty variant first: the file is taken for unreadable.)
loadUserChainsUnreadable(file) == NoUserChains

loadUserChains(file) == file

\* The options of the add-chain runs and the names of the remove-chain runs
\* (removals are run with --yes).
WriterOps ==
  { [kind |-> "add", key |-> chainKey(o), opts |-> Some(o)] :
      o \in { [name |-> n, chainId |-> 12345, rpc |-> "https://rpc.mychain.io",
               nativeToken |-> t, decimals |-> 18, explorer |-> Nothing,
               legacyGas |-> FALSE] :
                 n \in {"mychain", "testnet", "Base"}, t \in {"ETH", "BERA"} } }
  \cup { [kind |-> "remove", key |-> k, opts |-> Nothing] : k \in {"mychain", "base"} }

\* Files the commands start from.
WriterFiles ==
  { NoUserChains,
    ("mychain" :> chainConfig([name |-> "mychain", chainId |-> 12345,
                               rpc |-> "https://rpc.mychain.io", nativeToken |-> "ETH",
                               decimals |-> 18, explorer |-> Nothing, legacyGas |-> FALSE])),
    ("mychain" :> chainConfig([name |-> "mychain", chainId |-> 12345,
                               rpc |-> "https://rpc.mychain.io", nativeToken |-> "ETH",
                               decimals |-> 18, explorer |-> Nothing, legacyGas |-> FALSE]))
    @@ ("base" :> chainConfig([name |-> "Base", chainId |-> 12345,
                               rpc |-> "https://rpc.mychain.io", nativeToken |-> "BERA",
                               decimals |-> 18, explorer |-> Nothing, legacyGas |-> TRUE])) }

\* const userChains = loadUserChains(); remove-chain exits when the name is
\* not a key of what it loaded.
WriterLoads ==
  /\ writers.state = "running"
  /\ \E p \in 1..2 :
       /\ writers.procs[p].pc = "start"
       /\ LET loaded == loadUserChains(userChains)
              op == writers.procs[p].op
          IN  writers' =
                [writers EXCEPT
                   !.procs[p].pc = IF op.kind = "remove" /\ op.key \notin DOMAIN loaded
                                     THEN "rejected" ELSE "loaded",
                   !.procs[p].local = loaded,
                   !.overlap = @ \/ writers.procs[3 - p].pc = "loaded"]
  /\ UNCHANGED <<args, userChains, chainNonce, pc, rpc, loc, out, hist, gas, reg, prices>>

\* userChains[chainKey] = chainConfig, or delete userChains[chainName]; then
\* saveUserChains(userChains) writes the whole object.
WriterSaves ==
  /\ writers.state = "running"
  /\ \E p \in 1..2 :
       /\ writers.procs[p].pc = "loaded"
       /\ LET op == writers.procs[p].op
          IN  userChains' = IF op.kind = "add"
                              THEN WithChain(writers.procs[p].local, op.key,
                                             chainConfig(op.opts[1]))
                              ELSE WithoutChain(writers.procs[p].local, op.key)
       /\ writers' = [writers EXCEPT !.procs[p].pc = "saved", !.last = p]
  /\ UNCHANGED <<args, chainNonce, pc, rpc, loc, out, hist, gas, reg, prices>>

(***************************************************************************)
(* Specification of one transfer run                                       *)
(***************************************************************************)

\* The chains a user can have added with add-chain before the run.
AddedChains ==
  { [name |-> "mychain", chainId |-> 12345, rpc |-> "https://rpc.mychain.io",
     nativeToken |-> "ETH", decimals |-> 18, explorer |-> Nothing, legacyGas |-> FALSE],
    [name |-> "MyChain", chainId |-> 12345, rpc |-> "https://rpc.mychain.io",
     nativeToken |-> "ETH", decimals |-> 18, explorer |-> Some("https://scan.mychain.io"),
     legacyGas |-> TRUE] }

UserChainFiles ==
  {NoUserChains} \cup { (chainKey(o) :> chainConfig(o)) : o \in AddedChains }

TransferArgs ==
  [ help : BOOLEAN, walletExists : BOOLEAN,
    chainName : {"MegaETH", "mychain"},
    to : {"0xRecipient", "0xnotanaddress"},
    amount : {"", "abc", "0", "1.0"},
    tokenAddress : {"", "0xToken", "0xnotatoken"},
    yes : {"", "--yes", "-y"}, jsonFlag : BOOLEAN,
    customGasPrice : {Nothing, Some(0)} ]

Init ==
  /\ args \in TransferArgs
  /\ userChains \in UserChainFiles
  /\ args.help => (~args.walletExists /\ args.amount = "")
  /\ ~args.walletExists => args.amount = ""
  /\ IsSome(args.customGasPrice) => (args.yes = "--yes" /\ ~args.jsonFlag)
  /\ toLowerCase(args.chainName) \notin DOMAIN builtinChains \/ userChains = NoUserChains
  /\ chainNonce = MaxNonce - 1
  /\ pc = "start"
  /\ rpc = RpcIdle
  /\ loc = NoLocals
  /\ out = NoOutput
  /\ hist = NoHistory
  /\ gas = GasIdle
  /\ reg = RegIdle
  /\ prices = PricesIdle
  /\ writers = WritersIdle

Next ==
  \/ Help \/ NoWallet
  \/ ValidateFail \/ ValidateNative \/ ValidateToken
  \/ TokenInfoFail \/ TokenInfoNext \/ TokenInfoDone
  \/ BalanceFail \/ BalanceInsufficient \/ BalanceOk
  \/ EstimateGasFail \/ EstimateGasOk
  \/ GasLimitFail \/ GasLimitOk
  \/ ConfirmSkipped \/ ConfirmYes \/ ConfirmNo
  \/ NonceFail \/ NonceOk
  \/ SignOk \/ SignFail
  \/ BroadcastFail \/ BroadcastOk
  \/ RpcAttemptOk \/ RpcAttemptRejected \/ RpcAttemptTransport
  \/ OtherTransaction

Spec == Init /\ [][Next]_vars

(***************************************************************************)
(* Specification of one client call on any chain of the registry           *)
(***************************************************************************)

NoArgs ==
  [help |-> FALSE, walletExists |-> TRUE, chainName |-> "", to |-> "", amount |-> "",
   tokenAddress |-> "", yes |-> "", jsonFlag |-> FALSE, customGasPrice |-> Nothing]

RpcOps ==
  {"getBalance", "readContract:symbol", "readContract:decimals", "readContract:name",
   "readContract:balanceOf", "estimateGas", "getTransactionCount", "sendRawTransaction"}

\* createPublicClientWithRetry(chain) / getWalletClient(chain), then one call.
ClientCall ==
  /\ pc = "client" /\ rpc.status = "idle"
  /\ \E chain \in {"MegaETH", "LightLink", "Base", "mychain"}, op \in RpcOps :
       /\ IsSome(getChain(chain))
       /\ rpc' = RpcStart(op, chain)
  /\ UNCHANGED <<prices, writers, reg, args, userChains, chainNonce, pc, loc, out, hist, gas>>

InitRpc ==
  /\ args = NoArgs
  /\ userChains \in UserChainFiles
  /\ chainNonce = MaxNonce - 1
  /\ pc = "client"
  /\ rpc = RpcIdle
  /\ loc = NoLocals
  /\ out = NoOutput
  /\ hist = NoHistory
  /\ gas = GasIdle
  /\ reg = RegIdle
  /\ prices = PricesIdle
  /\ writers = WritersIdle

NextRpc ==
  \/ ClientCall
  \/ RpcAttemptOk \/ RpcAttemptRejected \/ RpcAttemptTransport
  \/ OtherTransaction

SpecRpc == InitRpc /\ [][NextRpc]_vars

(***************************************************************************)
(* Specification of one call of estimateGas                                *)
(***************************************************************************)

GasOptions ==
  [ safetyMargin : {Nothing, Some(10), Some(15), Some(30)},
    priorityFeePercentile : {Nothing, Some(0), Some(100), Some(150)},
    gasPrice : {Nothing, Some(0)} ]

EstimateGasCall ==
  /\ gas.state = "ready"
  /\ gas' = [gas EXCEPT !.state = "done",
                        !.result = Some(estimateGas(gas.chainName, gas.options[1], gas.net[1]))]
  /\ UNCHANGED <<prices, writers, reg, args, userChains, chainNonce, pc, rpc, loc, out, hist>>

InitGas ==
  /\ args = NoArgs
  /\ userChains = NoUserChains
  /\ chainNonce = MaxNonce - 1
  /\ pc = "estimator"
  /\ rpc = RpcIdle
  /\ loc = NoLocals
  /\ out = NoOutput
  /\ hist = NoHistory
  /\ reg = RegIdle
  /\ prices = PricesIdle
  /\ writers = WritersIdle
  /\ \E c \in {"MegaETH", "LightLink"}, o \in GasOptions, net \in NetScripts :
       gas = [state |-> "ready", chainName |-> c, options |-> Some(o), net |-> Some(net),
              result |-> Nothing]

NextGas == EstimateGasCall

SpecGas == InitGas /\ [][NextGas]_vars

(***************************************************************************)
(* Specification of a sequence of registry commands                        *)
(***************************************************************************)

InitReg ==
  /\ args = NoArgs
  /\ userChains = NoUserChains
  /\ chainNonce = MaxNonce - 1
  /\ pc = "registry"
  /\ rpc = RpcIdle
  /\ loc = NoLocals
  /\ out = NoOutput
  /\ hist = NoHistory
  /\ gas = GasIdle
  /\ reg = RegIdle
  /\ prices = PricesIdle
  /\ writers = WritersIdle

NextReg == AddChain \/ AddChainHelp \/ RemoveChain \/ Resolve \/ ListChains

SpecReg == InitReg /\ [][NextReg]_vars

(***************************************************************************)
(* Specification of the command-line tools together: one run of transfer,  *)
(* or a short sequence of registry commands                                *)
(***************************************************************************)

InitCli == Init \/ InitReg

\* Registry commands run in a row on this side.
MaxCliCommands == 2

NextCli == Next \/ (reg.n < MaxCliCommands /\ NextReg)

SpecCli == InitCli /\ [][NextCli]_vars

(***************************************************************************)
(* Specification of one call of getCurrentGasPrices                        *)
(***************************************************************************)

InitPrices ==
  /\ args = NoArgs
  /\ userChains = NoUserChains
  /\ chainNonce = MaxNonce - 1
  /\ pc = "prices"
  /\ rpc = RpcIdle
  /\ loc = NoLocals
  /\ out = NoOutput
  /\ hist = NoHistory
  /\ gas = GasIdle
  /\ reg = RegIdle
  /\ writers = WritersIdle
  /\ \E k \in 1..MaxRequested :
       \E q \in [1..k -> {"megaeth", "lightlink", "base", "ethereum"}],
          nets \in [1..k -> PriceNetScripts] :
         /\ \A i, j \in 1..k : q[i] = q[j] => i = j
         /\ prices = [PricesIdle EXCEPT !.state = "running", !.chains = q, !.nets = nets]

NextPrices == PriceTaskSettles \/ PricesReturn

SpecPrices == InitPrices /\ [][NextPrices]_vars

(***************************************************************************)
(* Specification of two registry commands run at the same time             *)
(***************************************************************************)

InitWriters ==
  /\ args = NoArgs
  /\ userChains \in WriterFiles
  /\ chainNonce = MaxNonce - 1
  /\ pc = "writers"
  /\ rpc = RpcIdle
  /\ loc = NoLocals
  /\ out = NoOutput
  /\ hist = NoHistory
  /\ gas = GasIdle
  /\ reg = RegIdle
  /\ prices = PricesIdle
  /\ \E q \in [1..2 -> WriterOps] :
       \* two commands on different names, at least one of them an add-chain
       /\ q[1].key # q[2].key /\ (q[1].kind = "add" \/ q[2].kind = "add")
       /\ writers = [state |-> "running",
                     procs |-> [p \in 1..2 |-> [op |-> q[p], pc |-> "start",
                                                 local |-> NoUserChains]],
                     overlap |-> FALSE, last |-> 0]

NextWriters == WriterLoads \/ WriterSaves

SpecWriters == InitWriters /\ [][NextWriters]_vars

(***************************************************************************)
(* Properties                                                              *)
(***************************************************************************)

Terminated == pc \in {"done", "exited"}
Last(q) == q[Len(q)]
Contains(q, x) == \E i \in 1..Len(q) : q[i] = x

\* The error the run reported: the JSON object's error field or the stderr line.
ReportedErrors ==
  IF jsonFlag THEN SelectSeq(out.json, LAMBDA o : ~o.success) ELSE out.stderr
ReportedError(k) ==
  IF jsonFlag THEN ReportedErrors[k].error[1] ELSE ReportedErrors[k]
ReportsSuccess ==
  IF jsonFlag THEN \E i \in 1..Len(out.json) : out.json[i].success
              ELSE Contains(out.stdout, "success")
CallsOf(op) == SelectSeq(hist.calls, LAMBDA c : c.op = op)

\* C1: whenever the broadcast returned a transaction hash, the run ends
\* reporting success with that hash and exit code 0, never a failure.
C1_AcceptedIsReportedAsSuccess ==
  (IsSome(loc.txHash) /\ Terminated) =>
     /\ out.exitCode = Some(0)
     /\ Len(ReportedErrors) = 0
     /\ ReportsSuccess
     /\ jsonFlag => Last(out.json).txHash = loc.txHash

\* C2: the stages complete in the fixed order Validated, BalanceChecked,
\* FeeEstimated, Built, Signed, Broadcast; a failed call or check ends the run
\* as failed at once; after the failure no stage completes, no call is issued,
\* nothing is signed and nothing is sent.
StagesInOrder ==
  /\ Len(hist.stages) <= Len(StageOrder)
  /\ \A i \in 1..Len(hist.stages) : hist.stages[i] = StageOrder[i]
C2_StagesInFixedOrder ==
  /\ []StagesInOrder
  /\ [][ /\ (rpc.status = "failed" /\ pc' # pc) => pc' = "exited"
         /\ pc = "exited" => (pc' = pc /\ hist' = hist /\ rpc' = rpc /\ loc' = loc) ]_vars
C2_Witness ==
  /\ pc = "exited"
  /\ hist.stages = <<"Validated", "BalanceChecked", "FeeEstimated", "Built">>
  /\ hist.signs = 0 /\ CallsOf("sendRawTransaction") = <<>>

\* C3: a balance read below the requested amount ends the run with an
\* insufficient-balance error that reports the balance read (have) and the
\* amount (need); no fee estimate, build, signature or broadcast follows
\* the balance read.
C3_InsufficientBalanceStops ==
  (IsSome(loc.balance) /\ loc.balance[1] < loc.transferAmount[1]) =>
     /\ pc = "exited" /\ out.exitCode = Some(1)
     /\ Len(ReportedErrors) = 1
     /\ ReportedError(1).parts \in {<<"Insufficient balance">>, <<"Insufficient token balance">>}
     /\ ReportedError(1).have = loc.balance
     /\ ReportedError(1).need = loc.transferAmount
     /\ hist.stages = <<"Validated">>
     /\ Last(hist.calls).op \in {"getBalance", "readContract:balanceOf"}
     /\ loc.gasEstimate = Nothing /\ loc.tx = Nothing
     /\ hist.signs = 0 /\ hist.sendCalls = 0 /\ hist.accepted = 0
C3_Witness ==
  /\ pc = "exited" /\ isNativeTransfer
  /\ loc.balance = Some(5) /\ loc.transferAmount = Some(10)
  /\ ReportedError(1).have = Some(5) /\ ReportedError(1).need = Some(10)

\* C4: a run whose recipient or token address is malformed, or whose amount
\* is zero or malformed, hands no call to the RPC layer.
InvalidIntent ==
  \/ ~isAddress(to)
  \/ tokenAddress # "" /\ ~isAddress(tokenAddress)
  \/ ~IsSome(parseAmount(amount))
  \/ parseAmount(amount) = Some(0)
C4_InvalidIntentNeverReachesNetwork ==
  InvalidIntent => hist.calls = <<>>

\* C5: a transaction is handed to the wallet only when --yes / -y was given
\* or the user answered the prompt with yes.
C5_SendOnlyWithYesOrAffirmativeAnswer ==
  hist.sendCalls > 0 =>
     \/ yesFlag
     \/ hist.prompts = 1 /\ IsSome(hist.answer) /\ IsYes(hist.answer[1])

\* C6: one run sends at most once and hands at most one broadcast to the RPC
\* layer; when that broadcast failed the run has ended as failed, the error
\* it reports contains the message of the broadcast's error, and no success
\* is reported.
BroadcastFailed ==
  /\ hist.calls # <<>> /\ Last(hist.calls).op = "sendRawTransaction"
  /\ rpc.status = "failed"
C6_BroadcastOnceAndFailureReported ==
  /\ hist.sendCalls <= 1
  /\ Len(CallsOf("sendRawTransaction")) <= 1
  /\ (BroadcastFailed /\ pc # "broadcast") =>
        /\ pc = "exited" /\ out.exitCode = Some(1)
        /\ Len(ReportedErrors) = 1
        /\ ReportedError(1).parts[1] = "Transfer failed"
        /\ Contains(ReportedError(1).parts, rpc.err[1].message)
        /\ ~ReportsSuccess
        /\ loc.txHash = Nothing
C6_Witness ==
  /\ BroadcastFailed /\ pc = "exited"
  /\ rpc.err[1].kind = "RpcExhausted"
  /\ ReportedError(1).parts = <<"Transfer failed", "connection refused">>

\* C7: the nonce of the assembled transaction is the value returned by the
\* one transaction-count read of the run, which is issued after the fee
\* estimate (three stages completed) and right before the transaction is
\* assembled.
C7_NonceFromReadAtBuildTime ==
  IsSome(loc.tx) =>
     /\ Len(CallsOf("getTransactionCount")) = 1
     /\ CallsOf("getTransactionCount")[1].after = 3
     /\ pc = "sign" =>
          /\ rpc.op = "getTransactionCount" /\ rpc.status = "ok"
          /\ Last(hist.calls).op = "getTransactionCount"
          /\ loc.tx[1].nonce = rpc.value
          /\ loc.tx[1].nonce = Last(rpc.log).answer
\* Two endpoints, the first times out, the second returns 5.
C7_Witness ==
  /\ pc = "sign" /\ rpc.n = 2
  /\ Len(rpc.log) = 2
  /\ rpc.log[1].ep = 1 /\ rpc.log[1].res = "timeout"
  /\ rpc.log[2].ep = 2 /\ rpc.log[2].res = "ok" /\ rpc.log[2].answer = Some(5)
  /\ loc.tx[1].nonce = Some(5)

\* C8: the attempts of a call visit the endpoints in their listed order,
\* starting from the first; when the first endpoint failed with a transport
\* error and the second answered, the call returns the second's answer.
InListedOrder ==
  \A i \in 1..Len(rpc.log) : rpc.log[i].ep = ((i - 1) % rpc.n) + 1
C8_FailoverInListedOrder ==
  /\ InListedOrder
  /\ \A i \in 2..Len(rpc.log) :
       (/\ rpc.log[i - 1].ep = 1 /\ rpc.log[i - 1].res \in TransportErrors
        /\ rpc.log[i].ep = 2 /\ rpc.log[i].res = "ok")
       => /\ i = Len(rpc.log)
          /\ rpc.status = "ok"
          /\ rpc.value = rpc.log[i].answer
C8_Witness ==
  /\ rpc.op = "sendRawTransaction" /\ rpc.n = 3
  /\ rpc.status = "ok" /\ Tried(rpc) = <<1, 2>>
  /\ rpc.log[1].res = "connection refused"
  /\ rpc.value = Some("0xhash")

\* C9: no call makes more than 2n attempts on a chain with n endpoints; a
\* call all of whose attempts failed with a transport error ends after
\* exactly 2n attempts (two passes in listed order) with RpcExhausted naming
\* the error of the last attempt.
AllTransport == \A i \in 1..Len(rpc.log) : rpc.log[i].res \in TransportErrors
C9_ExhaustedAfterTwoPasses ==
  /\ Len(rpc.log) <= 2 * rpc.n
  /\ (AllTransport /\ Len(rpc.log) = 2 * rpc.n /\ rpc.n > 0) =>
        /\ rpc.status = "failed"
        /\ rpc.err = Some([kind |-> "RpcExhausted", message |-> Last(rpc.log).res])
        /\ Tried(rpc) = [i \in 1..(2 * rpc.n) |-> ((i - 1) % rpc.n) + 1]
  /\ (AllTransport /\ Len(rpc.log) < 2 * rpc.n) => rpc.status \in {"idle", "running"}
  /\ (rpc.status = "failed" /\ rpc.err[1].kind = "RpcExhausted") =>
        (AllTransport /\ Len(rpc.log) = 2 * rpc.n)
C9_Witness ==
  /\ rpc.n = 3 /\ rpc.status = "failed" /\ Len(rpc.log) = 6
  /\ rpc.log[5].res = "timeout"
  /\ rpc.err = Some([kind |-> "RpcExhausted", message |-> "connection refused"])

\* C10: every eip1559 envelope estimateGas returns has
\* maxFeePerGas >= safetyMargin * baseFeePerGas + maxPriorityFeePerGas and
\* maxPriorityFeePerGas >= 0.1 gwei (the safety margin is in tenths).
GasSafetyMargin ==
  IF IsSome(gas.options[1].safetyMargin) THEN gas.options[1].safetyMargin[1] ELSE 20
C10_Eip1559EnvelopeBounds ==
  (gas.state = "done" /\ gas.result[1].ok /\ gas.result[1].v[1].type = "eip1559") =>
     LET e == gas.result[1].v[1]
     IN  /\ (e.maxFeePerGas - e.maxPriorityFeePerGas) * 10
              >= GasSafetyMargin * e.baseFeePerGas[1]
         /\ e.maxPriorityFeePerGas >= MinPriorityFee
C10_Witness ==
  /\ gas.state = "done" /\ gas.result[1].ok
  /\ gas.result[1].v[1].type = "eip1559"
  /\ gas.options[1].safetyMargin = Some(30)
  /\ gas.options[1].priorityFeePercentile = Some(100)
  /\ gas.result[1].v[1].baseFeePerGas = Some(10)
  /\ gas.result[1].v[1].maxPriorityFeePerGas = 1500000000
  /\ gas.result[1].v[1].maxFeePerGas = 1500000030

\* C11: on a legacy chain an estimate with the gas-price override 0 returns
\* a legacy envelope whose gas price is 0, reads nothing from the network
\* (no gas price, no block), and the gas parameters built from it carry
\* gasPrice 0 and neither EIP-1559 fee field.
C11_ZeroOverrideIsGasless ==
  (/\ gas.state = "done"
   /\ getChain(gas.chainName)[1].legacyGas
   /\ gas.options[1].gasPrice = Some(0)) =>
     /\ gas.result[1].ok
     /\ gas.result[1].reads = <<>>
     /\ gas.result[1].v[1].type = "legacy"
     /\ gas.result[1].v[1].gasPrice = 0
     /\ buildGasParams(gas.result[1].v[1]) =
          [gasPrice |-> Some(0), maxFeePerGas |-> Nothing, maxPriorityFeePerGas |-> Nothing]
C11_Witness ==
  /\ gas.state = "done" /\ gas.chainName = "LightLink"
  /\ gas.options[1].gasPrice = Some(0)
  /\ gas.net[1].gasPrice = Ok(7)
  /\ gas.result[1].v[1].gasPrice = 0 /\ gas.result[1].reads = <<>>

\* C13: on a chain not tagged legacy, with the latest block read and an
\* integer safety margin: a latest block without base fee gives the legacy
\* path; a latest block with a base fee, 0 included, gives an eip1559
\* envelope carrying that base fee.
TookLegacyPath ==
  IF gas.result[1].ok THEN gas.result[1].v[1].type = "legacy"
                      ELSE gas.result[1].msg[1] = "Failed to estimate legacy gas"
C13_BaseFeePresentGivesEip1559 ==
  (/\ gas.state = "done"
   /\ ~getChain(gas.chainName)[1].legacyGas
   /\ gas.net[1].latestBlock.ok
   /\ IsIntegerTenths(GasSafetyMargin)) =>
     LET baseFee == gas.net[1].latestBlock.v[1].baseFeePerGas
     IN  IF baseFee = Nothing
           THEN TookLegacyPath
           ELSE /\ gas.result[1].ok
                /\ gas.result[1].v[1].type = "eip1559"
                /\ gas.result[1].v[1].baseFeePerGas = baseFee

\* C14: once the latest block gave a non-zero base fee (integer safety
\* margin), no outcome of the sampling reads keeps the estimate from
\* returning an eip1559 envelope; when the block-number read failed or no
\* sampled transaction carried both fee fields, the priority fee is the
\* 2 gwei default and maxFeePerGas = safetyMargin * baseFee + 2 gwei.
NoSampleCollected ==
  \/ ~gas.net[1].blockNumber.ok
  \/ \A i \in 1..BlocksSampled :
        LET b == gas.net[1].blocks[i]
        IN  b.ok => \A k \in 1..Len(b.v[1].transactions) :
                      k <= TxsSampled =>
                        ~(/\ Truthy(b.v[1].transactions[k].maxPriorityFeePerGas)
                          /\ Truthy(b.v[1].transactions[k].maxFeePerGas))
C14_SamplingNeverFailsEstimate ==
  (/\ gas.state = "done"
   /\ ~getChain(gas.chainName)[1].legacyGas
   /\ gas.net[1].latestBlock.ok
   /\ Truthy(gas.net[1].latestBlock.v[1].baseFeePerGas)
   /\ IsIntegerTenths(GasSafetyMargin)) =>
     /\ gas.result[1].ok
     /\ gas.result[1].v[1].type = "eip1559"
     /\ NoSampleCollected =>
          /\ gas.result[1].v[1].maxPriorityFeePerGas = DefaultPriorityFee
          /\ (gas.result[1].v[1].maxFeePerGas - DefaultPriorityFee) * 10 =
               GasSafetyMargin * gas.net[1].latestBlock.v[1].baseFeePerGas[1]
C14_Witness ==
  /\ gas.state = "done" /\ gas.chainName = "MegaETH"
  /\ gas.options[1].safetyMargin = Nothing
  /\ gas.net[1].latestBlock = Ok([baseFeePerGas |-> Some(10)])
  /\ gas.net[1].blockNumber.ok
  /\ \A i \in 1..BlocksSampled : gas.net[1].blocks[i] = EmptyBlock
  /\ gas.result[1].v[1].maxPriorityFeePerGas = 2000000000
  /\ gas.result[1].v[1].maxFeePerGas = 2000000020

\* C12: when --gas-price G is given, the transaction the network accepted is
\* priced at G (as its gasPrice or as its maxFeePerGas), on a legacy chain
\* and on an EIP-1559 chain alike.
C12_CustomGasPricePricesTransaction ==
  (IsSome(loc.txHash) /\ IsSome(args.customGasPrice)) =>
     \/ loc.tx[1].gasPrice = args.customGasPrice
     \/ loc.tx[1].maxFeePerGas = args.customGasPrice

\* C15: when the simulate-call for the gas limit failed, no gas limit is
\* set, nothing is signed or sent, and the run ends with exit code 1 and
\* the error "Gas estimation failed: Failed to estimate gas limit: <cause>".
C15_SimulationFailureFailsEstimate ==
  (rpc.op = "estimateGas" /\ rpc.status = "failed") =>
     /\ loc.gasLimit = Nothing /\ loc.tx = Nothing
     /\ hist.prompts = 0 /\ hist.signs = 0 /\ hist.sendCalls = 0
     /\ CallsOf("sendRawTransaction") = <<>>
     /\ pc \in {"estimateGasLimit", "exited"}
     /\ pc = "exited" =>
          /\ out.exitCode = Some(1)
          /\ ~ReportsSuccess
          /\ Len(ReportedErrors) = 1
          /\ ReportedError(1).parts =
               <<"Gas estimation failed", "Failed to estimate gas limit", rpc.err[1].message>>
C15_Witness ==
  /\ pc = "exited" /\ rpc.op = "estimateGas" /\ rpc.status = "failed"
  /\ rpc.err = Some([kind |-> "RpcError", message |-> "execution reverted"])
  /\ ReportedError(1).parts =
       <<"Gas estimation failed", "Failed to estimate gas limit", "execution reverted">>

\* C16: the gas limit main() keeps, and the gas field of every assembled
\* transaction, is the simulated estimate g plus floor(g / 5), which is at
\* least g.
C16_GasLimitIsEstimatePlusFifth ==
  /\ IsSome(loc.gasLimit) =>
       /\ IsSome(hist.simulated)
       /\ loc.gasLimit[1] = hist.simulated[1] + hist.simulated[1] \div 5
       /\ loc.gasLimit[1] >= hist.simulated[1]
  /\ IsSome(loc.tx) => loc.tx[1].gas = hist.simulated[1] + hist.simulated[1] \div 5
C16_Witness ==
  /\ IsSome(loc.tx) /\ hist.simulated = Some(21004) /\ loc.tx[1].gas = 25204

\* C17: getChain(name) succeeds, whatever the letter case of name, exactly
\* when name is a key of the built-in table or of the user's chain file, and
\* then returns that chain (the user's entry first); for every other name it
\* fails with "Unsupported chain".
KnownChainKeys == DOMAIN builtinChains \cup DOMAIN userChains
C17_ResolveTotalAndCaseInsensitive ==
  reg.cmd = "resolve" =>
     LET key == toLowerCase(reg.argv[1])
     IN  IF key \in KnownChainKeys
           THEN /\ reg.ok
                /\ reg.found = Some(IF key \in DOMAIN userChains THEN userChains[key]
                                                                 ELSE builtinChains[key])
           ELSE /\ ~reg.ok
                /\ reg.found = Nothing
                /\ reg.error = "Unsupported chain"

\* C18: remove-chain called with the name of a built-in chain fails
\* (exit code 1) and leaves the user's chain file as it was, whatever was
\* added or removed before.
RemoveGivenNames == SelectSeq(reg.argv[1].positional, LAMBDA a : ~StartsWithDash(a))
C18_RemoveBuiltInAlwaysFails ==
  (/\ reg.cmd = "remove"
   /\ RemoveGivenNames # <<>>
   /\ toLowerCase(RemoveGivenNames[1]) \in DOMAIN builtinChains) =>
     /\ ~reg.ok
     /\ userChains = reg.before
     /\ reg.exitCode = Some(0) => reg.error = ""

\* C19 as claimed: add-chain stores the chain exactly when the chain id is a
\* positive integer, the RPC URL is well-formed and the explorer URL, if
\* given, is well-formed; otherwise it reports an error and the chain file
\* is unchanged.  (The chain id is the first argument after the name that
\* parses to a number other than 0, the RPC URL the argument after it.)
AddGiven == SelectSeq(reg.argv[1].positional, LAMBDA a : ~StartsWithDash(a))
IsChainIdAt(i) ==
  /\ i \in 2..Len(AddGiven)
  /\ Truthy(parseInt(AddGiven[i]))
  /\ \A j \in 2..(i - 1) : ~Truthy(parseInt(AddGiven[j]))
AddChecksPass ==
  \E i \in 2..Len(AddGiven) :
    /\ IsChainIdAt(i)
    /\ parseInt(AddGiven[i])[1] > 0
    /\ i + 1 <= Len(AddGiven)
    /\ isValidUrl(AddGiven[i + 1])
AddExplorerOk == IsSome(reg.argv[1].explorer) => isValidUrl(reg.argv[1].explorer[1])
AddRejectedCleanly ==
  /\ reg.error # "" /\ reg.exitCode = Some(1)
  /\ userChains = reg.before
C19_AddRejectsInvalidExplorer ==
  reg.cmd = "add" =>
     /\ reg.ok <=> (AddChecksPass /\ AddExplorerOk)
     /\ ~reg.ok => AddRejectedCleanly

\* C19 amended: add-chain stores the chain exactly when the chain id parses
\* to a positive integer and the RPC URL is well-formed; otherwise it reports
\* an error and the chain file is unchanged.  The stored chain has that id
\* and that URL; an explorer URL that is given but malformed is left out of
\* the stored chain, a well-formed one is stored.
C19_AddValidatesIdAndRpc ==
  reg.cmd = "add" =>
     /\ reg.ok <=> AddChecksPass
     /\ ~reg.ok => AddRejectedCleanly
     /\ reg.ok =>
          \E k \in DOMAIN userChains, i \in 2..Len(AddGiven) :
            /\ IsChainIdAt(i)
            /\ userChains[k].name = AddGiven[1]
            /\ userChains[k].chainId = parseInt(AddGiven[i])[1]
            /\ userChains[k].chainId > 0
            /\ userChains[k].rpcs = <<AddGiven[i + 1]>>
            /\ isValidUrl(AddGiven[i + 1])
            /\ userChains[k].explorer =
                 IF IsSome(reg.argv[1].explorer) /\ isValidUrl(reg.argv[1].explorer[1])
                   THEN Some([name |-> AddGiven[1] \o " Explorer",
                              url |-> reg.argv[1].explorer[1]])
                   ELSE Nothing
            /\ \A j \in DOMAIN userChains \ {k} :
                 j \in DOMAIN reg.before /\ userChains[j] = reg.before[j]
C19_Witness ==
  /\ reg.cmd = "add" /\ ~reg.ok /\ reg.error = "Invalid RPC URL"
  /\ reg.argv[1].positional = <<"mychain", "12345", "not a url">>
  /\ reg.before # NoUserChains /\ userChains = reg.before

\* C20: after add-chain accepted a chain (given as name, chain id and RPC
\* URL; its explorer URL, if given, well-formed), getChain called with the name that was given to add-chain
\* returns a chain equal to the one given in chain id, name, native token
\* symbol and decimals, RPC URL list, explorer URL and legacy-gas flag.
C20_AddThenResolveRoundTrip ==
  (/\ reg.cmd = "resolve" /\ IsSome(reg.added)
   /\ reg.argv[1] = reg.added[1].positional[1]
   /\ Len(reg.added[1].positional) = 3
   /\ IsSome(reg.added[1].explorer) => isValidUrl(reg.added[1].explorer[1])) =>
     /\ reg.ok
     /\ reg.found[1].name = reg.added[1].positional[1]
     /\ reg.found[1].chainId = parseInt(reg.added[1].positional[2])[1]
     /\ reg.found[1].nativeToken = [symbol |-> reg.added[1].nativeToken, decimals |-> 18]
     /\ reg.found[1].rpcs = <<reg.added[1].positional[3]>>
     /\ reg.found[1].legacyGas = reg.added[1].legacyGas
     /\ IF IsSome(reg.added[1].explorer)
          THEN /\ IsSome(reg.found[1].explorer)
               /\ reg.found[1].explorer[1].url = reg.added[1].explorer[1]
          ELSE reg.found[1].explorer = Nothing

\* C21 as claimed: after add-chain accepted a chain and remove-chain, called
\* with the same name and not declined at its prompt, ran right after it,
\* getChain called with that name fails with "Unsupported chain".
NonDash(argv) == SelectSeq(argv.positional, LAMBDA a : ~StartsWithDash(a))
UndoneName == NonDash(reg.undone[1].add)[1]
RemoveDeclined == ~reg.undone[1].ok /\ reg.undone[1].error = ""
AddUndone ==
  /\ IsSome(reg.undone)
  /\ NonDash(reg.undone[1].remove) # <<>>
  /\ NonDash(reg.undone[1].remove)[1] = UndoneName
  /\ ~RemoveDeclined
ResolvedAfterUndo == reg.cmd = "resolve" /\ AddUndone /\ reg.argv[1] = UndoneName
ResolvedIn(file, name) ==
  toLowerCase(name) \in DOMAIN builtinChains \cup DOMAIN file \cup ObjectPrototypeKeys
FreshName(file, name) ==
  /\ toLowerCase(name) \notin DOMAIN file
  /\ chainKey([name |-> name]) \notin DOMAIN file
C22_AddThenRemoveRestoresList ==
  (/\ reg.cmd \in {"remove", "list"} /\ AddUndone
   /\ FreshName(reg.undone[1].before, UndoneName)) =>
     /\ listChains(userChains) = listChains(reg.undone[1].before)
     /\ reg.cmd = "list" => reg.found = Some(listChains(reg.undone[1].before))

\* C23: list-chains reports exactly the names of the built-in table and of
\* the user file, each once; a name in the user file is reported with the
\* user's chain (also when a built-in chain has that name) and marked
\* user-defined, every other name with the built-in chain and not marked.
ListedAs(row, chain, isUser) ==
  /\ row.chainId = chain.chainId
  /\ row.name = chain.name
  /\ row.nativeToken = chain.nativeToken.symbol
  /\ row.legacyGas = chain.legacyGas
  /\ row.explorer = (IF IsSome(chain.explorer) THEN Some(chain.explorer[1].url) ELSE Nothing)
  /\ row.userDefined = isUser
C23_ListMergesUserOverBuiltIn ==
  reg.cmd = "list" =>
     LET listed == reg.found[1]
     IN  /\ DOMAIN listed.chains = DOMAIN builtinChains \cup DOMAIN userChains
         /\ listed.total = Cardinality(DOMAIN listed.chains)
         /\ listed.userDefined = Cardinality(DOMAIN userChains)
         /\ \A k \in DOMAIN listed.chains :
              IF k \in DOMAIN userChains
                THEN ListedAs(listed.chains[k], userChains[k], TRUE)
                ELSE ListedAs(listed.chains[k], builtinChains[k], FALSE)
C23_Witness ==
  /\ reg.cmd = "list"
  /\ "base" \in DOMAIN userChains /\ "mychain" \in DOMAIN userChains
  /\ reg.found[1].chains["base"].chainId = 12345
  /\ reg.found[1].chains["base"].userDefined
  /\ ~reg.found[1].chains["ethereum"].userDefined
  /\ reg.found[1].total = 8

\* C24: after any sequence of add-chain and remove-chain runs, no two chains
\* of the merged chain table have the same chain id.
C24_ChainIdsUnique ==
  \A k1, k2 \in DOMAIN chains :
     chains[k1].chainId = chains[k2].chainId => k1 = k2

\* C30: an add-chain or remove-chain run changes at most the entry of the
\* user file stored under the name it was given: every other entry of the
\* user file, and every chain of the merged table under another name, is as
\* before the run; a run that is rejected or declined at the prompt leaves
\* the user file as it was.
SameElsewhere(key) ==
  /\ DOMAIN userChains \ {key} = DOMAIN reg.before \ {key}
  /\ \A k \in DOMAIN userChains \ {key} : userChains[k] = reg.before[k]
  /\ \A k \in DOMAIN builtinChains \ {key} :
        /\ k \in DOMAIN chains
        /\ chains[k] = MergedChains(reg.before)[k]
C30_MutationsTouchOnlyTheirName ==
  /\ (reg.cmd = "add" /\ reg.ok) => SameElsewhere(chainKey([name |-> AddGiven[1]]))
  /\ (reg.cmd = "remove" /\ reg.ok) => SameElsewhere(toLowerCase(RemoveGivenNames[1]))
  /\ (reg.cmd \in {"add", "remove"} /\ ~reg.ok) => userChains = reg.before
C30_Witness ==
  /\ reg.cmd = "add" /\ reg.ok
  /\ AddGiven[1] = "My Chain"
  /\ "mychain" \in DOMAIN reg.before /\ "base" \in DOMAIN reg.before
  /\ "my-chain" \notin DOMAIN reg.before
  /\ DOMAIN userChains = {"mychain", "base", "my-chain"}

\* C25 as claimed: with --json, every run of transfer, add-chain or
\* remove-chain writes exactly one JSON object to stdout and nothing else;
\* the object has a boolean success, with the result fields when success is
\* true and an error message when it is false, and the exit code is 0
\* exactly when success is true.
TransferJsonContract ==
  /\ Len(out.json) = 1 /\ out.stdout = <<>>
  /\ out.json[1].success \in BOOLEAN
  /\ out.json[1].success =>
        /\ IsSome(out.json[1].txHash) /\ IsSome(out.json[1].explorerUrl)
        /\ out.json[1].error = Nothing
  /\ ~out.json[1].success =>
        /\ IsSome(out.json[1].error)
        /\ out.json[1].txHash = Nothing
  /\ (out.exitCode = Some(0)) <=> out.json[1].success
RegistryJsonContract ==
  /\ Len(reg.out.json) = 1 /\ reg.out.stdout = <<>>
  /\ reg.out.json[1].success \in BOOLEAN
  /\ reg.out.json[1].success =>
        /\ IsSome(reg.out.json[1].result)
        /\ reg.out.json[1].error = Nothing
  /\ ~reg.out.json[1].success =>
        /\ IsSome(reg.out.json[1].error)
        /\ reg.out.json[1].result = Nothing
  /\ (reg.exitCode = Some(0)) <=> reg.out.json[1].success
RegistryJsonRun ==
  \/ reg.cmd \in {"add", "help"} /\ reg.argv[1].json
  \/ /\ reg.cmd = "remove"
     /\ \E i \in 1..Len(reg.argv[1].positional) : reg.argv[1].positional[i] = "--json"
gasPriceForCalc ==
  IF loc.gasEstimate[1].type = "legacy" THEN loc.gasEstimate[1].gasPrice
                                        ELSE loc.gasEstimate[1].maxFeePerGas
CoversAmountAndFee ==
  \/ loc.balance[1] > loc.transferAmount[1]
  \/ /\ loc.balance[1] = loc.transferAmount[1]
     /\ (gasPriceForCalc = 0 \/ loc.gasLimit[1] = 0)
C27_BroadcastOnlyIfBalanceCoversFee ==
  (/\ pc # "registry" /\ isNativeTransfer
   /\ Contains(hist.stages, "Broadcast")) =>
     /\ loc.gasLimit[1] <= 30000
     /\ CoversAmountAndFee

\* C28: when the sampling of an eip1559 estimate collected n >= 1 priority
\* fees and the percentile p is between 0 and 100 (75 when none is given),
\* the priority fee of the estimate is the larger of 0.1 gwei and the value
\* at index floor(p / 100 * (n - 1)), counted from 0, of the fees in
\* ascending order; the sampling reads at most 10 blocks, all among the 20
\* most recent, and takes at most the first 10 transactions of each, so
\* n <= 100.
Percentile ==
  IF IsSome(gas.options[1].priorityFeePercentile)
    THEN gas.options[1].priorityFeePercentile[1] ELSE 75
SampledFees == CollectFees(gas.net[1], BlocksSampled)
SamplingCollected ==
  /\ gas.state = "done"
  /\ ~getChain(gas.chainName)[1].legacyGas
  /\ gas.net[1].latestBlock.ok
  /\ Truthy(gas.net[1].latestBlock.v[1].baseFeePerGas)
  /\ IsIntegerTenths(GasSafetyMargin)
  /\ gas.net[1].blockNumber.ok
  /\ ~NoSampleCollected
\* v is the value at index k (from 0) of xs in ascending order.
AtAscendingIndex(v, k, xs) ==
  /\ \E i \in 1..Len(xs) : xs[i] = v
  /\ Cardinality({i \in 1..Len(xs) : xs[i] < v}) <= k
  /\ Cardinality({i \in 1..Len(xs) : xs[i] <= v}) > k
SampleBlockReads ==
  {i \in 1..Len(gas.result[1].reads) :
     gas.result[1].reads[i].op = "getBlock" /\ gas.result[1].reads[i].arg # 0}
C28_PriorityFeeIsFlooredPercentile ==
  (SamplingCollected /\ Percentile \in 0..100) =>
     LET n == Len(SampledFees)
         k == (Percentile * (n - 1)) \div 100
     IN  /\ n >= 1 /\ n <= 100
         /\ \A i \in 1..BlocksSampled :
              gas.net[1].blocks[i].ok =>
                Len(BlockFees(gas.net[1].blocks[i].v[1])) <= 10
         /\ Cardinality(SampleBlockReads) <= 10
         /\ \A i \in SampleBlockReads : gas.result[1].reads[i].arg \in (0 - 19)..(0 - 1)
         /\ \E v \in {SampledFees[i] : i \in 1..n} :
              /\ AtAscendingIndex(v, k, SampledFees)
              /\ gas.result[1].v[1].maxPriorityFeePerGas =
                   (IF v > 100000000 THEN v ELSE 100000000)
C28_Witness ==
  /\ SamplingCollected
  /\ gas.options[1].priorityFeePercentile = Nothing
  /\ gas.net[1].blocks[1] = Ok([transactions |-> <<txHigh, txLegacy, txMid>>])
  /\ gas.net[1].blocks[2] = Ok([transactions |-> <<txLow>>])
  /\ SampledFees = <<1500000000, 100000001, 50000000>>
  /\ gas.result[1].v[1].maxPriorityFeePerGas = 100000001

\* C26: while the per-chain tasks of getCurrentGasPrices settle in any
\* order, the result holds exactly one entry for every chain whose task has
\* settled, and that entry is the outcome of the chain's own estimate: the
\* estimate when it succeeded, the error message when it failed; a failure
\* changes no other chain's entry, and the call returns only when every
\* task has settled, with one entry for every requested chain.
PriceTasks == 1..Len(prices.chains)
OwnEstimate(i) ==
  estimateGas(prices.chains[i],
              [safetyMargin |-> Nothing, priorityFeePercentile |-> Nothing,
               gasPrice |-> Nothing],
              prices.nets[i])
C26_PriceFailuresAreIsolated ==
  prices.state # "idle" =>
     /\ DOMAIN prices.results = {prices.chains[i] : i \in prices.settled}
     /\ \A i \in prices.settled :
          LET entry == prices.results[prices.chains[i]]
          IN  /\ entry.success = OwnEstimate(i).ok
              /\ entry.success => entry.gasInfo = OwnEstimate(i).v /\ entry.error = Nothing
              /\ ~entry.success =>
                    entry.error = Some(OwnEstimate(i).msg) /\ entry.gasInfo = Nothing
     /\ prices.state = "returned" =>
          /\ prices.settled = PriceTasks
          /\ prices.returned = Some(prices.results)
          /\ DOMAIN prices.returned[1] = {prices.chains[i] : i \in PriceTasks}
C26_Witness ==
  /\ prices.state = "returned" /\ Len(prices.chains) = 3
  /\ ~prices.returned[1][prices.chains[1]].success
  /\ prices.returned[1][prices.chains[2]].success
  /\ ~prices.returned[1][prices.chains[3]].success

\* C29 as claimed: when two registry commands on different names have both
\* loaded and saved the user file, in whatever order their loads and saves
\* were interleaved, the file reflects both changes.
Reflected(p) ==
  LET op == writers.procs[p].op
  IN  IF op.kind = "add"
        THEN /\ op.key \in DOMAIN userChains
             /\ userChains[op.key] = chainConfig(op.opts[1])
        ELSE op.key \notin DOMAIN userChains
BothSaved == writers.state = "running" /\ \A p \in 1..2 : writers.procs[p].pc = "saved"
C29_NoLostUpdate == BothSaved => Reflected(1) /\ Reflected(2)

\* C29 amended: the file reflects both changes when the commands did not
\* overlap (one saved before the other loaded).  The command that saves
\* last always has its change in the file; when both loaded before either
\* saved, the entry under the other command's name is as the last command
\* loaded it, so the other change is lost.
C29_LastWriterWins ==
  BothSaved =>
     /\ Reflected(writers.last)
     /\ ~writers.overlap => Reflected(1) /\ Reflected(2)
     /\ writers.overlap =>
          LET first == writers.procs[3 - writers.last]
              seen == writers.procs[writers.last].local
          IN  /\ first.op.key \in DOMAIN userChains <=> first.op.key \in DOMAIN seen
              /\ first.op.key \in DOMAIN userChains =>
                    userChains[first.op.key] = seen[first.op.key]
C29_Witness ==
  /\ BothSaved /\ writers.overlap
  /\ writers.procs[1].op.kind = "add" /\ writers.procs[2].op.kind = "add"
  /\ ~Reflected(3 - writers.last)

====
